---- MODULE Spec2Model ----
(***************************************************************************)
(* Skip-Bo rules engine (src/src/game.rs): the Game aggregate, its piles,  *)
(* and the public operations legal_actions and apply_action.               *)
(*                                                                         *)
(* Cards: Number(v) is the integer v (1..12), the wildcard is SkipBo (0).  *)
(* A Vec is a sequence whose last element is the top of the pile; the      *)
(* source's 0-based index i is position i + 1 here.                        *)
(***************************************************************************)
EXTENDS Integers, Sequences, FiniteSets, TLC

\* ---------------------------------------------------------------- card.rs
MIN_CARD_VALUE == 1
MAX_CARD_VALUE == 12
SKIP_BO_COUNT == 18
COPIES_PER_VALUE == 12
HAND_SIZE == 5
DISCARD_PILE_COUNT == 4
BUILD_PILE_COUNT == 4
MAX_PLAYERS == 6

SkipBo == 0

matches_value_atleast(card, value) == card = SkipBo \/ card >= value
matches_value(card, value) == card = SkipBo \/ card = value

RECURSIVE Repeat(_, _)
Repeat(x, n) == IF n = 0 THEN << >> ELSE <<x>> \o Repeat(x, n - 1)

full_deck ==
    [k \in 1..(COPIES_PER_VALUE * MAX_CARD_VALUE) |->
        ((k - 1) % MAX_CARD_VALUE) + MIN_CARD_VALUE]
    \o Repeat(SkipBo, SKIP_BO_COUNT)

\* ------------------------------------------------------- generic helpers
RECURSIVE SumSeq(_)
SumSeq(s) == IF s = << >> THEN 0 ELSE Head(s) + SumSeq(Tail(s))

\* Vec::remove(index), index 0-based and in range
RemoveAt(s, index) ==
    [k \in 1..(Len(s) - 1) |-> IF k <= index THEN s[k] ELSE s[k + 1]]

\* Vec::pop on a non-empty vector: the vector that is left
PopLast(s) == SubSeq(s, 1, Len(s) - 1)

Swap(s, i, j) == [s EXCEPT ![i] = s[j], ![j] = s[i]]

\* ---------------------------------------------------------------- results
Ok == [tag |-> "Ok", arg |-> 0]
Err(tag, arg) == [tag |-> tag, arg |-> arg]

\* --------------------------------------------------------------- action.rs
Hand(index) == [kind |-> "Hand", index |-> index]
Stock == [kind |-> "Stock", index |-> 0]
SrcDiscard(index) == [kind |-> "Discard", index |-> index]

Play(source, build_pile) ==
    [kind |-> "Play", source |-> source, a |-> 0, b |-> build_pile]
Discard(hand_index, discard_pile) ==
    [kind |-> "Discard", source |-> Stock, a |-> hand_index, b |-> discard_pile]
EndTurn == [kind |-> "EndTurn", source |-> Stock, a |-> 0, b |-> 0]

\* ---------------------------------------------------------------- state.rs
Ongoing == [tag |-> "Ongoing", winner |-> -1]
Finished(winner) == [tag |-> "Finished", winner |-> winner]
Draw == [tag |-> "Draw", winner |-> -1]

GameSettings_new_upto5(num_players) ==
    IF ~(num_players >= 2 /\ num_players <= MAX_PLAYERS)
    THEN [result |-> Err("InvalidConfiguration", 0),
          settings |-> [num_players |-> 0, stock_size |-> 0, hand_size |-> 0,
                        discard_piles |-> 0, build_piles |-> 0]]
    ELSE [result |-> Ok,
          settings |-> [num_players |-> num_players,
                        stock_size |-> IF num_players <= 5 THEN 30 ELSE 20,
                        hand_size |-> HAND_SIZE,
                        discard_piles |-> DISCARD_PILE_COUNT,
                        build_piles |-> BUILD_PILE_COUNT]]

GameSettings_new_seven(num_players) ==
    IF ~(num_players >= 2 /\ num_players <= MAX_PLAYERS + 1)
    THEN [result |-> Err("InvalidConfiguration", 0),
          settings |-> [num_players |-> 0, stock_size |-> 0, hand_size |-> 0,
                        discard_piles |-> 0, build_piles |-> 0]]
    ELSE [result |-> Ok,
          settings |-> [num_players |-> num_players,
                        stock_size |-> IF num_players <= 4 THEN 30 ELSE 20,
                        hand_size |-> HAND_SIZE,
                        discard_piles |-> DISCARD_PILE_COUNT,
                        build_piles |-> BUILD_PILE_COUNT]]

GameSettings_new(num_players) ==
    IF ~(num_players >= 2 /\ num_players <= MAX_PLAYERS)
    THEN [result |-> Err("InvalidConfiguration", 0),
          settings |-> [num_players |-> 0, stock_size |-> 0, hand_size |-> 0,
                        discard_piles |-> 0, build_piles |-> 0]]
    ELSE [result |-> Ok,
          settings |-> [num_players |-> num_players,
                        stock_size |-> IF num_players <= 4 THEN 30 ELSE 20,
                        hand_size |-> HAND_SIZE,
                        discard_piles |-> DISCARD_PILE_COUNT,
                        build_piles |-> BUILD_PILE_COUNT]]

\* ------------------------------------------------- rng (StdRng, by seed)
\* The generator is a value stepped by a fixed recurrence; a shuffle is the
\* Fisher-Yates loop of SliceRandom::shuffle driven by it.
RngMod == 64
seed_from_u64(seed) == seed % RngMod
RngStep(r) == (r * 5 + 3) % RngMod

\* the loop body for positions hi down to lo, each step drawing one number
\* and swapping; a range of several positions is run as its upper half
\* followed by its lower half, the upper half being evaluated (by the test on
\* its cards) before the lower half is entered, which keeps the evaluation
\* shallow for the 162-card deck
RECURSIVE ShuffleRange(_, _, _, _)
ShuffleRange(s, hi, lo, r) ==
    IF hi < lo THEN [cards |-> s, rng |-> r]
    ELSE IF hi = lo
    THEN [cards |-> Swap(s, hi, (RngStep(r) % hi) + 1), rng |-> RngStep(r)]
    ELSE LET mid == (hi + lo) \div 2
             upper == ShuffleRange(s, hi, mid + 1, r)
         IN  IF upper.cards = << >> THEN upper
             ELSE ShuffleRange(upper.cards, mid, lo, upper.rng)

ShuffleFrom(s, i, r) == ShuffleRange(s, i, 2, r)

Shuffle(s, r) == ShuffleFrom(s, Len(s), r)

\* --------------------------------------------------- game.rs: BuildPile
BuildPile_new == << >>
next_value(cards) == ((Len(cards) % 256) % MAX_CARD_VALUE) + 1
\* the pile counts as complete one card early
is_complete_early(cards) == Len(cards) = MAX_CARD_VALUE - 1

is_complete_late(cards) == Len(cards) = MAX_CARD_VALUE + 1
is_complete(cards) == Len(cards) = MAX_CARD_VALUE

\* -------------------------------------------------- game.rs: PlayerState
PlayerState_new(stock) ==
    [stock |-> stock, hand |-> << >>,
     discard_piles |-> [d \in 0..(DISCARD_PILE_COUNT - 1) |-> << >>],
     has_won |-> FALSE]

NoCard == -1

discard_top(player, index) ==
    IF index \in DOMAIN player.discard_piles /\ player.discard_piles[index] # << >>
    THEN player.discard_piles[index][Len(player.discard_piles[index])]
    ELSE NoCard

\* self.players.len(); players are indexed 0..n-1
NumPlayers(g) == Cardinality(DOMAIN g.players)

\* ------------------------------------------------- game.rs: deck manager
\* the bottom card of the recycle pile stays behind
reshuffle_recycle_keep(g) ==
    LET sh == Shuffle(Tail(g.recycle_pile), g.rng)
    IN  [g EXCEPT !.draw_pile = g.draw_pile \o sh.cards,
                  !.recycle_pile = <<Head(g.recycle_pile)>>,
                  !.rng = sh.rng]

\* reshuffle_recycle: shuffle the recycle pile and append it to the draw pile
reshuffle_recycle(g) ==
    LET sh == Shuffle(g.recycle_pile, g.rng)
    IN  [g EXCEPT !.draw_pile = g.draw_pile \o sh.cards,
                  !.recycle_pile = << >>,
                  !.rng = sh.rng]

draw_card_noreshuffle(g) ==
    IF g.draw_pile # << >>
    THEN [card |-> g.draw_pile[Len(g.draw_pile)],
          game |-> [g EXCEPT !.draw_pile = PopLast(g.draw_pile)]]
    ELSE [card |-> NoCard, game |-> g]

\* draw_card: [card, game]; card = NoCard stands for None
draw_card(g) ==
    IF g.draw_pile # << >>
    THEN [card |-> g.draw_pile[Len(g.draw_pile)],
          game |-> [g EXCEPT !.draw_pile = PopLast(g.draw_pile)]]
    ELSE IF g.recycle_pile = << >>
    THEN [card |-> NoCard, game |-> g]
    ELSE LET r == reshuffle_recycle(g)
         IN  [card |-> r.draw_pile[Len(r.draw_pile)],
              game |-> [r EXCEPT !.draw_pile = PopLast(r.draw_pile)]]

\* the refill loop runs once more than hand_size allows
RECURSIVE RefillHand_over(_)
RefillHand_over(g) ==
    IF Len(g.players[g.current_player].hand) <= g.settings.hand_size
    THEN LET d == draw_card(g)
         IN  IF d.card = NoCard THEN g
             ELSE RefillHand_over(
                    [d.game EXCEPT !.players[g.current_player].hand = Append(@, d.card)])
    ELSE g

RECURSIVE RefillHand(_)
RefillHand(g) ==
    IF Len(g.players[g.current_player].hand) < g.settings.hand_size
    THEN LET d == draw_card(g)
         IN  IF d.card = NoCard THEN g
             ELSE RefillHand(
                    [d.game EXCEPT !.players[g.current_player].hand = Append(@, d.card)])
    ELSE g

begin_turn_stepping(g) ==
    IF g.status.tag = "Finished"
    THEN [g EXCEPT !.turn_phase = "GameOver"]
    ELSE RefillHand([g EXCEPT !.turn_phase = "AwaitingAction",
                              !.rng = RngStep(g.rng)])

begin_turn(g) ==
    IF g.status.tag = "Finished"
    THEN [g EXCEPT !.turn_phase = "GameOver"]
    ELSE RefillHand([g EXCEPT !.turn_phase = "AwaitingAction"])

advance_turn_skip(g) ==
    IF g.status.tag = "Finished"
    THEN [g EXCEPT !.turn_phase = "GameOver"]
    ELSE begin_turn(
           [g EXCEPT !.current_player = (g.current_player + 2) % NumPlayers(g)])

advance_turn(g) ==
    IF g.status.tag = "Finished"
    THEN [g EXCEPT !.turn_phase = "GameOver"]
    ELSE begin_turn(
           [g EXCEPT !.current_player = (g.current_player + 1) % NumPlayers(g)])

\* ------------------------------------------------ game.rs: card sources
peek_source_offbyone(player, source) ==
    CASE source.kind = "Hand" ->
            IF source.index < Len(player.hand)
            THEN [result |-> Ok, card |-> player.hand[source.index + 1]]
            ELSE [result |-> Err("HandIndex", source.index), card |-> NoCard]
      [] source.kind = "Stock" ->
            IF player.stock # << >>
            THEN [result |-> Ok, card |-> player.stock[Len(player.stock)]]
            ELSE [result |-> Err("NoCardAvailable", 0), card |-> NoCard]
      [] source.kind = "Discard" ->
            IF source.index > DISCARD_PILE_COUNT
            THEN [result |-> Err("DiscardIndex", source.index), card |-> NoCard]
            ELSE IF discard_top(player, source.index) # NoCard
            THEN [result |-> Ok, card |-> discard_top(player, source.index)]
            ELSE [result |-> Err("NoCardAvailable", 0), card |-> NoCard]

\* peek_source: [result, card]
peek_source(player, source) ==
    CASE source.kind = "Hand" ->
            IF source.index < Len(player.hand)
            THEN [result |-> Ok, card |-> player.hand[source.index + 1]]
            ELSE [result |-> Err("HandIndex", source.index), card |-> NoCard]
      [] source.kind = "Stock" ->
            IF player.stock # << >>
            THEN [result |-> Ok, card |-> player.stock[Len(player.stock)]]
            ELSE [result |-> Err("NoCardAvailable", 0), card |-> NoCard]
      [] source.kind = "Discard" ->
            IF source.index >= DISCARD_PILE_COUNT
            THEN [result |-> Err("DiscardIndex", source.index), card |-> NoCard]
            ELSE IF discard_top(player, source.index) # NoCard
            THEN [result |-> Ok, card |-> discard_top(player, source.index)]
            ELSE [result |-> Err("NoCardAvailable", 0), card |-> NoCard]

take_from_source_bottom(player, source) ==
    CASE source.kind = "Hand" ->
            IF source.index >= Len(player.hand)
            THEN [result |-> Err("HandIndex", source.index), card |-> NoCard,
                  player |-> player]
            ELSE [result |-> Ok, card |-> player.hand[source.index + 1],
                  player |-> [player EXCEPT !.hand = RemoveAt(@, source.index)]]
      [] source.kind = "Stock" ->
            IF player.stock # << >>
            THEN [result |-> Ok, card |-> player.stock[Len(player.stock)],
                  player |-> [player EXCEPT !.stock = Tail(@)]]
            ELSE [result |-> Err("NoCardAvailable", 0), card |-> NoCard,
                  player |-> player]
      [] source.kind = "Discard" ->
            IF source.index >= DISCARD_PILE_COUNT
            THEN [result |-> Err("DiscardIndex", source.index), card |-> NoCard,
                  player |-> player]
            ELSE IF discard_top(player, source.index) # NoCard
            THEN [result |-> Ok, card |-> discard_top(player, source.index),
                  player |-> [player EXCEPT
                                !.discard_piles[source.index] = PopLast(@)]]
            ELSE [result |-> Err("NoCardAvailable", 0), card |-> NoCard,
                  player |-> player]

\* take_from_source: [result, card, player]
take_from_source(player, source) ==
    CASE source.kind = "Hand" ->
            IF source.index >= Len(player.hand)
            THEN [result |-> Err("HandIndex", source.index), card |-> NoCard,
                  player |-> player]
            ELSE [result |-> Ok, card |-> player.hand[source.index + 1],
                  player |-> [player EXCEPT !.hand = RemoveAt(@, source.index)]]
      [] source.kind = "Stock" ->
            IF player.stock # << >>
            THEN [result |-> Ok, card |-> player.stock[Len(player.stock)],
                  player |-> [player EXCEPT !.stock = PopLast(@)]]
            ELSE [result |-> Err("NoCardAvailable", 0), card |-> NoCard,
                  player |-> player]
      [] source.kind = "Discard" ->
            IF source.index >= DISCARD_PILE_COUNT
            THEN [result |-> Err("DiscardIndex", source.index), card |-> NoCard,
                  player |-> player]
            ELSE IF discard_top(player, source.index) # NoCard
            THEN [result |-> Ok, card |-> discard_top(player, source.index),
                  player |-> [player EXCEPT
                                !.discard_piles[source.index] = PopLast(@)]]
            ELSE [result |-> Err("NoCardAvailable", 0), card |-> NoCard,
                  player |-> player]

\* ------------------------------------------------- game.rs: play_card
\* the card goes under the pile instead of on top of it
PushAndCycle_front(g, build_pile_idx, card) ==
    LET pushed == <<card>> \o g.build_piles[build_pile_idx]
    IN  IF is_complete(pushed)
        THEN [g EXCEPT !.build_piles[build_pile_idx] = << >>,
                       !.recycle_pile = g.recycle_pile \o pushed]
        ELSE [g EXCEPT !.build_piles[build_pile_idx] = pushed]

PushAndCycle_drop(g, build_pile_idx, card) ==
    LET pushed == Append(g.build_piles[build_pile_idx], card)
    IN  IF is_complete(pushed)
        THEN [g EXCEPT !.build_piles[build_pile_idx] = << >>]
        ELSE [g EXCEPT !.build_piles[build_pile_idx] = pushed]

PushAndCycle_before(g, build_pile_idx, card) ==
    LET pushed == Append(g.build_piles[build_pile_idx], card)
    IN  IF is_complete(g.build_piles[build_pile_idx])
        THEN [g EXCEPT !.build_piles[build_pile_idx] = << >>,
                       !.recycle_pile = g.recycle_pile \o pushed]
        ELSE [g EXCEPT !.build_piles[build_pile_idx] = pushed]

\* the pile after push, drained into the recycle pile when complete
PushAndCycle(g, build_pile_idx, card) ==
    LET pushed == Append(g.build_piles[build_pile_idx], card)
    IN  IF is_complete(pushed)
        THEN [g EXCEPT !.build_piles[build_pile_idx] = << >>,
                       !.recycle_pile = g.recycle_pile \o pushed]
        ELSE [g EXCEPT !.build_piles[build_pile_idx] = pushed]

CheckWin_handempty(g) ==
    IF g.players[g.current_player].stock = << >>
       /\ g.players[g.current_player].hand = << >>
    THEN [g EXCEPT !.players[g.current_player].has_won = TRUE,
                   !.status = Finished(g.current_player),
                   !.turn_phase = "GameOver"]
    ELSE g

CheckWin_noflag(g) ==
    IF g.players[g.current_player].stock = << >>
    THEN [g EXCEPT !.status = Finished(g.current_player),
                   !.turn_phase = "GameOver"]
    ELSE g

CheckWin_nophase(g) ==
    IF g.players[g.current_player].stock = << >>
    THEN [g EXCEPT !.players[g.current_player].has_won = TRUE,
                   !.status = Finished(g.current_player)]
    ELSE g

\* no win check at all
CheckWin_never(g) == g

\* the win check that closes play_card
CheckWin(g) ==
    IF g.players[g.current_player].stock = << >>
    THEN [g EXCEPT !.players[g.current_player].has_won = TRUE,
                   !.status = Finished(g.current_player),
                   !.turn_phase = "GameOver"]
    ELSE g

\* a hand emptied by the play is refilled from the draw supply at once
play_card_refill(g, build_pile_idx, source) ==
    IF build_pile_idx >= BUILD_PILE_COUNT
    THEN [result |-> Err("BuildPileIndex", build_pile_idx), game |-> g]
    ELSE IF g.turn_phase = "GameOver"
    THEN [result |-> Err("GameOver", 0), game |-> g]
    ELSE
      LET required_value == next_value(g.build_piles[build_pile_idx])
          peek == peek_source(g.players[g.current_player], source)
      IN  IF peek.result # Ok THEN [result |-> peek.result, game |-> g]
          ELSE IF ~matches_value(peek.card, required_value)
          THEN [result |-> Err("CardMismatch", required_value), game |-> g]
          ELSE
            LET taken == take_from_source(g.players[g.current_player], source)
                played == PushAndCycle(
                            [g EXCEPT !.players[g.current_player] = taken.player],
                            build_pile_idx, taken.card)
            IN  IF taken.result # Ok THEN [result |-> taken.result, game |-> g]
                ELSE [result |-> Ok,
                      game |-> CheckWin(
                                 IF played.players[g.current_player].hand = << >>
                                 THEN RefillHand(played) ELSE played)]

\* the card is taken from its source before it is matched against the pile
play_card_takefirst(g, build_pile_idx, source) ==
    IF build_pile_idx >= BUILD_PILE_COUNT
    THEN [result |-> Err("BuildPileIndex", build_pile_idx), game |-> g]
    ELSE IF g.turn_phase = "GameOver"
    THEN [result |-> Err("GameOver", 0), game |-> g]
    ELSE
      LET required_value == next_value(g.build_piles[build_pile_idx])
          taken == take_from_source(g.players[g.current_player], source)
          after == [g EXCEPT !.players[g.current_player] = taken.player]
      IN  IF taken.result # Ok THEN [result |-> taken.result, game |-> g]
          ELSE IF ~matches_value(taken.card, required_value)
          THEN [result |-> Err("CardMismatch", required_value), game |-> after]
          ELSE [result |-> Ok,
                game |-> CheckWin(PushAndCycle(after, build_pile_idx, taken.card))]

\* play_card: [result, game]
play_card(g, build_pile_idx, source) ==
    IF build_pile_idx >= BUILD_PILE_COUNT
    THEN [result |-> Err("BuildPileIndex", build_pile_idx), game |-> g]
    ELSE IF g.turn_phase = "GameOver"
    THEN [result |-> Err("GameOver", 0), game |-> g]
    ELSE
      LET required_value == next_value(g.build_piles[build_pile_idx])
          peek == peek_source(g.players[g.current_player], source)
      IN  IF peek.result # Ok THEN [result |-> peek.result, game |-> g]
          ELSE IF ~matches_value(peek.card, required_value)
          THEN [result |-> Err("CardMismatch", required_value), game |-> g]
          ELSE
            LET taken == take_from_source(g.players[g.current_player], source)
            IN  IF taken.result # Ok THEN [result |-> taken.result, game |-> g]
                ELSE [result |-> Ok,
                      game |-> CheckWin(PushAndCycle(
                                 [g EXCEPT !.players[g.current_player] = taken.player],
                                 build_pile_idx, taken.card))]

\* the card lands on the discard pile of the player who moves next
discard_card_next(g, hand_index, discard_index) ==
    IF discard_index >= DISCARD_PILE_COUNT
    THEN [result |-> Err("DiscardIndex", discard_index), game |-> g]
    ELSE IF hand_index >= Len(g.players[g.current_player].hand)
    THEN [result |-> Err("HandIndex", hand_index), game |-> g]
    ELSE [result |-> Ok,
          game |-> [g EXCEPT
                      !.players[g.current_player].hand = RemoveAt(@, hand_index),
                      !.players[(g.current_player + 1) % NumPlayers(g)]
                         .discard_piles[discard_index] =
                          Append(@, g.players[g.current_player].hand[hand_index + 1])]]

discard_card_front(g, hand_index, discard_index) ==
    IF discard_index >= DISCARD_PILE_COUNT
    THEN [result |-> Err("DiscardIndex", discard_index), game |-> g]
    ELSE IF hand_index >= Len(g.players[g.current_player].hand)
    THEN [result |-> Err("HandIndex", hand_index), game |-> g]
    ELSE [result |-> Ok,
          game |-> [g EXCEPT
                      !.players[g.current_player].hand = RemoveAt(@, 0),
                      !.players[g.current_player].discard_piles[discard_index] =
                          Append(@, g.players[g.current_player].hand[1])]]

\* discard_card: [result, game]
discard_card(g, hand_index, discard_index) ==
    IF discard_index >= DISCARD_PILE_COUNT
    THEN [result |-> Err("DiscardIndex", discard_index), game |-> g]
    ELSE IF hand_index >= Len(g.players[g.current_player].hand)
    THEN [result |-> Err("HandIndex", hand_index), game |-> g]
    ELSE [result |-> Ok,
          game |-> [g EXCEPT
                      !.players[g.current_player].hand = RemoveAt(@, hand_index),
                      !.players[g.current_player].discard_piles[discard_index] =
                          Append(@, g.players[g.current_player].hand[hand_index + 1])]]

\* ------------------------------------------------ game.rs: apply_action
apply_action_guards_noover(g, player) ==
    IF player >= NumPlayers(g) THEN Err("InvalidPlayer", player)
    ELSE IF player # g.current_player THEN Err("NotPlayersTurn", 0)
    ELSE Ok

apply_action_guards_offbyone(g, player) ==
    IF g.status.tag = "Finished" THEN Err("GameOver", 0)
    ELSE IF player > NumPlayers(g) THEN Err("InvalidPlayer", player)
    ELSE IF player # g.current_player THEN Err("NotPlayersTurn", 0)
    ELSE Ok

\* the three guards that open apply_action
apply_action_guards(g, player) ==
    IF g.status.tag = "Finished" THEN Err("GameOver", 0)
    ELSE IF player >= NumPlayers(g) THEN Err("InvalidPlayer", player)
    ELSE IF player # g.current_player THEN Err("NotPlayersTurn", 0)
    ELSE Ok

apply_action_endturn_any(g, player, action) ==
    IF apply_action_guards(g, player) # Ok
    THEN [result |-> apply_action_guards(g, player), game |-> g]
    ELSE
      CASE action.kind = "Play" -> play_card(g, action.b, action.source)
        [] action.kind = "Discard" ->
             LET d == discard_card(g, action.a, action.b)
             IN  IF d.result # Ok THEN d
                 ELSE [result |-> Ok, game |-> advance_turn(d.game)]
        [] action.kind = "EndTurn" ->
             [result |-> Ok, game |-> advance_turn(g)]

\* apply_action: [result, game]
apply_action(g, player, action) ==
    IF apply_action_guards(g, player) # Ok
    THEN [result |-> apply_action_guards(g, player), game |-> g]
    ELSE
      CASE action.kind = "Play" -> play_card(g, action.b, action.source)
        [] action.kind = "Discard" ->
             LET d == discard_card(g, action.a, action.b)
             IN  IF d.result # Ok THEN d
                 ELSE [result |-> Ok, game |-> advance_turn(d.game)]
        [] action.kind = "EndTurn" ->
             IF g.players[player].hand # << >>
             THEN [result |-> Err("MustDiscard", 0), game |-> g]
             ELSE [result |-> Ok, game |-> advance_turn(g)]

\* ------------------------------------------------- game.rs: state_view
\* BuildPile::as_view
as_view(cards) == [cards |-> cards, next_value |-> next_value(cards)]

\* player.stock.last().copied(); NoCard stands for None
stock_top(player) ==
    IF player.stock # << >> THEN player.stock[Len(player.stock)] ELSE NoCard

discard_tops(player) ==
    [idx \in 0..(DISCARD_PILE_COUNT - 1) |-> discard_top(player, idx)]

discard_counts(player) ==
    [idx \in 0..(DISCARD_PILE_COUNT - 1) |-> Len(player.discard_piles[idx])]

state_view_current(g, perspective) ==
    IF perspective >= NumPlayers(g)
    THEN [result |-> Err("InvalidPlayer", perspective), view |-> [hand |-> << >>]]
    ELSE [result |-> Ok,
          view |->
            [settings |-> g.settings,
             phase |-> g.turn_phase,
             status |-> g.status,
             self_player |-> perspective,
             current_player |-> g.current_player,
             draw_pile_count |-> Len(g.draw_pile),
             recycle_pile_count |-> Len(g.recycle_pile),
             build_piles |-> [idx \in DOMAIN g.build_piles |->
                                as_view(g.build_piles[idx])],
             players |-> [idx \in DOMAIN g.players |->
                            [id |-> idx,
                             stock_count |-> Len(g.players[idx].stock),
                             stock_top |-> stock_top(g.players[idx]),
                             discard_tops |-> discard_tops(g.players[idx]),
                             discard_counts |-> discard_counts(g.players[idx]),
                             hand_size |-> Len(g.players[idx].hand),
                             is_current |-> idx = g.current_player,
                             has_won |-> g.players[idx].has_won]],
             hand |-> g.players[g.current_player].hand]]

\* state_view: [result, view]
state_view(g, perspective) ==
    IF perspective >= NumPlayers(g)
    THEN [result |-> Err("InvalidPlayer", perspective), view |-> [hand |-> << >>]]
    ELSE [result |-> Ok,
          view |->
            [settings |-> g.settings,
             phase |-> g.turn_phase,
             status |-> g.status,
             self_player |-> perspective,
             current_player |-> g.current_player,
             draw_pile_count |-> Len(g.draw_pile),
             recycle_pile_count |-> Len(g.recycle_pile),
             build_piles |-> [idx \in DOMAIN g.build_piles |->
                                as_view(g.build_piles[idx])],
             players |-> [idx \in DOMAIN g.players |->
                            [id |-> idx,
                             stock_count |-> Len(g.players[idx].stock),
                             stock_top |-> stock_top(g.players[idx]),
                             discard_tops |-> discard_tops(g.players[idx]),
                             discard_counts |-> discard_counts(g.players[idx]),
                             hand_size |-> Len(g.players[idx].hand),
                             is_current |-> idx = g.current_player,
                             has_won |-> g.players[idx].has_won]],
             hand |-> g.players[perspective].hand]]

\* ----------------------------------------------- game.rs: legal_actions
HandPlays(g, ps) ==
    SelectSeq(
      [k \in 1..(Len(ps.hand) * BUILD_PILE_COUNT) |->
          Play(Hand((k - 1) \div BUILD_PILE_COUNT), (k - 1) % BUILD_PILE_COUNT)],
      LAMBDA act : matches_value(ps.hand[act.source.index + 1],
                                 next_value(g.build_piles[act.b])))

\* every build pile listed for the stock top, matching or not
StockPlays_any(g, ps) ==
    IF ps.stock = << >> THEN << >>
    ELSE [k \in 1..BUILD_PILE_COUNT |-> Play(Stock, k - 1)]

StockPlays(g, ps) ==
    IF ps.stock = << >> THEN << >>
    ELSE SelectSeq(
           [k \in 1..BUILD_PILE_COUNT |-> Play(Stock, k - 1)],
           LAMBDA act : matches_value(ps.stock[Len(ps.stock)],
                                      next_value(g.build_piles[act.b])))

DiscardPlays(g, ps) ==
    SelectSeq(
      [k \in 1..(DISCARD_PILE_COUNT * BUILD_PILE_COUNT) |->
          Play(SrcDiscard((k - 1) \div BUILD_PILE_COUNT), (k - 1) % BUILD_PILE_COUNT)],
      LAMBDA act : /\ discard_top(ps, act.source.index) # NoCard
                   /\ matches_value(discard_top(ps, act.source.index),
                                    next_value(g.build_piles[act.b])))

DiscardsOrEndTurn_always(ps) ==
    [k \in 1..(DISCARD_PILE_COUNT * Len(ps.hand)) |->
        Discard((k - 1) % Len(ps.hand), (k - 1) \div Len(ps.hand))]
    \o <<EndTurn>>

DiscardsOrEndTurn_short(ps) ==
    IF ps.hand # << >>
    THEN [k \in 1..(DISCARD_PILE_COUNT * (Len(ps.hand) - 1)) |->
            Discard((k - 1) % (Len(ps.hand) - 1), (k - 1) \div (Len(ps.hand) - 1))]
    ELSE <<EndTurn>>

\* nothing is listed for an empty hand
DiscardsOrEndTurn_noend(ps) ==
    IF ps.hand # << >>
    THEN [k \in 1..(DISCARD_PILE_COUNT * Len(ps.hand)) |->
            Discard((k - 1) % Len(ps.hand), (k - 1) \div Len(ps.hand))]
    ELSE << >>

DiscardsOrEndTurn(ps) ==
    IF ps.hand # << >>
    THEN [k \in 1..(DISCARD_PILE_COUNT * Len(ps.hand)) |->
            Discard((k - 1) % Len(ps.hand), (k - 1) \div Len(ps.hand))]
    ELSE <<EndTurn>>

legal_actions_guards_swapped(g, player) ==
    IF g.status.tag = "Finished" THEN "Empty"
    ELSE IF player # g.current_player THEN "NotPlayersTurn"
    ELSE IF player >= NumPlayers(g) THEN "InvalidPlayer"
    ELSE "Enumerate"

\* the guards that open legal_actions; "Empty" is the early Ok(Vec::new())
legal_actions_guards(g, player) ==
    IF g.status.tag = "Finished" THEN "Empty"
    ELSE IF player >= NumPlayers(g) THEN "InvalidPlayer"
    ELSE IF player # g.current_player THEN "NotPlayersTurn"
    ELSE "Enumerate"

\* legal_actions: [result, actions]
legal_actions(g, player) ==
    IF legal_actions_guards(g, player) = "Empty"
    THEN [result |-> Ok, actions |-> << >>]
    ELSE IF legal_actions_guards(g, player) = "InvalidPlayer"
    THEN [result |-> Err("InvalidPlayer", player), actions |-> << >>]
    ELSE IF legal_actions_guards(g, player) = "NotPlayersTurn"
    THEN [result |-> Err("NotPlayersTurn", 0), actions |-> << >>]
    ELSE [result |-> Ok,
          actions |-> HandPlays(g, g.players[player])
                      \o StockPlays(g, g.players[player])
                      \o DiscardPlays(g, g.players[player])
                      \o DiscardsOrEndTurn(g.players[player])]

is_finished(g) == g.status.tag = "Finished"
winner(g) == IF g.status.tag = "Finished" THEN g.status.winner ELSE -1

\* ------------------------------------------------ game.rs: from_builder
None == << >>
Some(x) == <<x>>

DealStock_short(deck, p, stock_size) ==
    [k \in 1..(stock_size - 1) |-> deck[Len(deck) - p * stock_size - (k - 1)]]

\* the stocks dealt by popping stock_size cards per player from the deck end
DealStock(deck, p, stock_size) ==
    [k \in 1..stock_size |-> deck[Len(deck) - p * stock_size - (k - 1)]]

\* from_builder: [result, game]; config.stock_size and config.deck are Options
from_builder(config) ==
    LET s0 == GameSettings_new(config.num_players)
        dummy == [settings |-> s0.settings, status |-> Ongoing, current_player |-> 0,
                  players |-> << >>, build_piles |-> << >>, draw_pile |-> << >>,
                  recycle_pile |-> << >>, turn_phase |-> "AwaitingAction", rng |-> 0]
    IN
    IF s0.result # Ok THEN [result |-> s0.result, game |-> dummy]
    ELSE IF config.stock_size # None /\ config.stock_size[1] = 0
    THEN [result |-> Err("InvalidConfiguration", 0), game |-> dummy]
    ELSE
      LET settings == IF config.stock_size # None
                      THEN [s0.settings EXCEPT !.stock_size = config.stock_size[1]]
                      ELSE s0.settings
          rng0 == seed_from_u64(config.seed)
          sh == IF config.deck # None THEN [cards |-> config.deck[1], rng |-> rng0]
                ELSE Shuffle(full_deck, rng0)
          required_stock_cards == settings.stock_size * settings.num_players
      IN  IF Len(sh.cards) < required_stock_cards
          THEN [result |-> Err("InvalidConfiguration", 0), game |-> dummy]
          ELSE [result |-> Ok,
                game |-> begin_turn(
                  [settings |-> settings,
                   status |-> Ongoing,
                   current_player |-> 0,
                   players |-> [p \in 0..(settings.num_players - 1) |->
                                  PlayerState_new(
                                    DealStock(sh.cards, p, settings.stock_size))],
                   build_piles |-> [b \in 0..(BUILD_PILE_COUNT - 1) |-> BuildPile_new],
                   draw_pile |-> SubSeq(sh.cards, 1,
                                        Len(sh.cards) - required_stock_cards),
                   recycle_pile |-> << >>,
                   turn_phase |-> "AwaitingAction",
                   rng |-> sh.rng])]

\* ------------------------------------------- ml/encoding.rs: ActionSpace
HAND_PLAY_ACTIONS == HAND_SIZE * BUILD_PILE_COUNT
STOCK_PLAY_ACTIONS == BUILD_PILE_COUNT
DISCARD_PLAY_ACTIONS == DISCARD_PILE_COUNT * BUILD_PILE_COUNT
DISCARD_ACTIONS == HAND_SIZE * DISCARD_PILE_COUNT
END_TURN_ACTIONS == 1

HAND_PLAY_OFFSET == 0
STOCK_PLAY_OFFSET == HAND_PLAY_OFFSET + HAND_PLAY_ACTIONS
DISCARD_PLAY_OFFSET == STOCK_PLAY_OFFSET + STOCK_PLAY_ACTIONS
DISCARD_OFFSET == DISCARD_PLAY_OFFSET + DISCARD_PLAY_ACTIONS
END_TURN_INDEX == DISCARD_OFFSET + DISCARD_ACTIONS
MAX_ACTIONS == END_TURN_INDEX + END_TURN_ACTIONS

\* the Discard arm with the two strides exchanged
action_index_swapped(action) ==
    CASE action.kind = "Play" ->
           IF action.b >= BUILD_PILE_COUNT THEN None
           ELSE (CASE action.source.kind = "Hand" ->
                       IF action.source.index >= HAND_SIZE THEN None
                       ELSE Some(HAND_PLAY_OFFSET
                                 + action.source.index * BUILD_PILE_COUNT + action.b)
                  [] action.source.kind = "Stock" ->
                       Some(STOCK_PLAY_OFFSET + action.b)
                  [] action.source.kind = "Discard" ->
                       IF action.source.index >= DISCARD_PILE_COUNT THEN None
                       ELSE LET relative == action.source.index * BUILD_PILE_COUNT
                                            + action.b
                            IN  Some(DISCARD_PLAY_OFFSET + relative))
      [] action.kind = "Discard" ->
           IF action.a >= HAND_SIZE \/ action.b >= DISCARD_PILE_COUNT THEN None
           ELSE Some(DISCARD_OFFSET + action.b * DISCARD_PILE_COUNT + action.a)
      [] action.kind = "EndTurn" -> Some(END_TURN_INDEX)

\* ActionSpace::action_index: Option<usize>
action_index(action) ==
    CASE action.kind = "Play" ->
           IF action.b >= BUILD_PILE_COUNT THEN None
           ELSE (CASE action.source.kind = "Hand" ->
                       IF action.source.index >= HAND_SIZE THEN None
                       ELSE Some(HAND_PLAY_OFFSET
                                 + action.source.index * BUILD_PILE_COUNT + action.b)
                  [] action.source.kind = "Stock" ->
                       Some(STOCK_PLAY_OFFSET + action.b)
                  [] action.source.kind = "Discard" ->
                       IF action.source.index >= DISCARD_PILE_COUNT THEN None
                       ELSE LET relative == action.source.index * BUILD_PILE_COUNT
                                            + action.b
                            IN  Some(DISCARD_PLAY_OFFSET + relative))
      [] action.kind = "Discard" ->
           IF action.a >= HAND_SIZE \/ action.b >= DISCARD_PILE_COUNT THEN None
           ELSE Some(DISCARD_OFFSET + action.a * DISCARD_PILE_COUNT + action.b)
      [] action.kind = "EndTurn" -> Some(END_TURN_INDEX)

\* ActionSpace::index_to_action: Option<Action>
index_to_action(index) ==
    IF index < HAND_PLAY_OFFSET THEN None
    ELSE IF index < STOCK_PLAY_OFFSET
    THEN LET relative == index - HAND_PLAY_OFFSET
         IN  Some(Play(Hand(relative \div BUILD_PILE_COUNT),
                       relative % BUILD_PILE_COUNT))
    ELSE IF index < DISCARD_PLAY_OFFSET
    THEN LET build_pile == index - STOCK_PLAY_OFFSET
         IN  IF build_pile < BUILD_PILE_COUNT THEN Some(Play(Stock, build_pile))
             ELSE None
    ELSE IF index < DISCARD_OFFSET
    THEN LET relative == index - DISCARD_PLAY_OFFSET
         IN  Some(Play(SrcDiscard(relative \div BUILD_PILE_COUNT),
                       relative % BUILD_PILE_COUNT))
    ELSE IF index < END_TURN_INDEX
    THEN LET relative == index - DISCARD_OFFSET
         IN  Some(Discard(relative \div DISCARD_PILE_COUNT,
                          relative % DISCARD_PILE_COUNT))
    ELSE IF index = END_TURN_INDEX THEN Some(EndTurn)
    ELSE None

\* ------------------------------------------------------------- score.rs
\* the loop of winner_points over state.players[0..n)
RECURSIVE opponents_stock_total(_, _, _)
opponents_stock_total(ps, n, winner_id) ==
    IF n = 0 THEN 0
    ELSE opponents_stock_total(ps, n - 1, winner_id)
         + (IF ps[n - 1].id # winner_id THEN ps[n - 1].stock_count ELSE 0)

\* the winner's own stock is counted too
winner_points_all(state, winner_id) ==
    25 + 5 * opponents_stock_total(state.players, Cardinality(DOMAIN state.players),
                                   Cardinality(DOMAIN state.players))

winner_points(state, winner_id) ==
    25 + 5 * opponents_stock_total(state.players, Cardinality(DOMAIN state.players),
                                   winner_id)

\* ------------------------------------------------- bots/random.rs, bot.rs
\* RandomBot::select_action: legal_actions.choose(&mut self.rng), one draw of
\* the bot's generator reduced to an index of the list
RandomBot_select_action(r, state, legal) ==
    legal[(RngStep(r) % Len(legal)) + 1]

\* HeuristicBot::self_player: the entry of state.players with id = self_player
self_player(state) ==
    state.players[CHOOSE idx \in DOMAIN state.players :
                     state.players[idx].id = state.self_player]

card_priority(card) == IF card = SkipBo THEN MAX_CARD_VALUE + 1 ELSE card

\* i32::MIN / 2
I32_MIN_HALF == -(2^30)

score_play(state, source, build_pile) ==
    IF build_pile \notin DOMAIN state.build_piles THEN I32_MIN_HALF
    ELSE LET pile == state.build_piles[build_pile]
             card == CASE source.kind = "Hand" ->
                            IF source.index < Len(state.hand)
                            THEN state.hand[source.index + 1] ELSE NoCard
                       [] source.kind = "Stock" -> self_player(state).stock_top
                       [] source.kind = "Discard" ->
                            IF source.index < DISCARD_PILE_COUNT
                            THEN self_player(state).discard_tops[source.index]
                            ELSE NoCard
         IN  IF card = NoCard THEN I32_MIN_HALF
             ELSE LET source_bonus == CASE source.kind = "Stock" -> 10000
                                        [] source.kind = "Discard" -> 4000
                                        [] source.kind = "Hand" -> 2000
                      value_score == card_priority(card) * 60
                      progress_bonus == Len(pile.cards) * 40
                      closeness_bonus == pile.next_value * 25
                      completion_bonus ==
                          IF pile.next_value = MAX_CARD_VALUE THEN 1000 ELSE 0
                      wild_bonus == IF card = SkipBo THEN 300 ELSE 0
                  IN  source_bonus + value_score + progress_bonus
                      + closeness_bonus + completion_bonus + wild_bonus

score_discard(state, hand_index, discard_pile) ==
    IF hand_index >= Len(state.hand) THEN I32_MIN_HALF
    ELSE LET card == state.hand[hand_index + 1]
             player == self_player(state)
             existing_top == IF discard_pile < DISCARD_PILE_COUNT
                             THEN player.discard_tops[discard_pile] ELSE NoCard
             duplicate_bonus == IF existing_top = card THEN 600 ELSE 0
             pile_depth == IF discard_pile < DISCARD_PILE_COUNT
                           THEN player.discard_counts[discard_pile] ELSE 0
             priority == card_priority(card) * 12
             spacing_penalty == pile_depth * 20
         IN  1000 + duplicate_bonus + priority - spacing_penalty
             - (hand_index * 10)

score_action(state, action) ==
    CASE action.kind = "Play" -> score_play(state, action.source, action.b)
      [] action.kind = "Discard" -> score_discard(state, action.a, action.b)
      [] action.kind = "EndTurn" -> -5000

\* Iterator::max_by_key over legal[1..n]: the position of the last element
\* of maximal score
RECURSIVE max_by_key(_, _, _)
max_by_key(state, legal, n) ==
    IF n = 1 THEN 1
    ELSE LET before == max_by_key(state, legal, n - 1)
         IN  IF score_action(state, legal[n]) >= score_action(state, legal[before])
             THEN n ELSE before

\* HeuristicBot::select_action, for a non-empty list (it asserts that)
HeuristicBot_select_action(state, legal) ==
    legal[max_by_key(state, legal, Len(legal))]

\* an f32 that is NaN compares greater than nothing and less than nothing
NaN == -(2^20)
f32_gt(x, y) == x # NaN /\ y # NaN /\ x > y

\* the loop of PolicyBot::select_action over legal[1..n]: best is None or
\* Some of the best value and its action
RECURSIVE PolicyBest(_, _, _)
PolicyBest(values, legal, n) ==
    IF n = 0 THEN None
    ELSE LET best == PolicyBest(values, legal, n - 1)
             index == action_index(legal[n])
         IN  IF index = None THEN best
             ELSE LET value == values[index[1]]
                  IN  IF best = None
                      THEN Some([value |-> value, action |-> legal[n]])
                      ELSE IF f32_gt(value, best[1].value)
                      THEN Some([value |-> value, action |-> legal[n]])
                      ELSE best

\* the best index of the whole action space, the list not consulted
RECURSIVE ArgMax(_, _)
ArgMax(values, n) ==
    IF n = 0 THEN 0
    ELSE LET before == ArgMax(values, n - 1)
         IN  IF f32_gt(values[n], values[before]) THEN n ELSE before

PolicyBot_select_action_unmasked(values, state, legal) ==
    index_to_action(ArgMax(values, MAX_ACTIONS - 1))[1]

\* PolicyBot::select_action, for a non-empty list (it asserts that); values
\* are the logits policy.forward returns for the encoded state
PolicyBot_select_action(values, state, legal) ==
    LET best == PolicyBest(values, legal, Len(legal))
    IN  IF best # None THEN best[1].action ELSE legal[1]

\* ======================================================= the state machine
\* settings .. rng are the fields of struct Game (game.rs 70-80); config is the
\* GameBuilder the game was built from; last is the kind of the latest action
\* applied with Ok ("build" before the first); turns counts the applied
\* actions as the loop of bin/simulate.rs does; end_turns counts the EndTurns applied in a stalemate
\* as the loop of tests/rules.rs detects_stalemate_draw_when_no_draws_and_no_plays;
\* call is the call of a free function (ActionSpace, winner_points) under
\* way: its name, argument and, once done, its return value
VARIABLES settings, status, current_player, players, build_piles, draw_pile,
          recycle_pile, turn_phase, rng, config, last, end_turns, turns, call

vars == <<settings, status, current_player, players, build_piles, draw_pile,
          recycle_pile, turn_phase, rng, config, last, end_turns, turns, call>>

\* the Game struct as one value
Game ==
    [settings |-> settings, status |-> status, current_player |-> current_player,
     players |-> players, build_piles |-> build_piles, draw_pile |-> draw_pile,
     recycle_pile |-> recycle_pile, turn_phase |-> turn_phase, rng |-> rng]

SetGame(g) ==
    /\ settings' = g.settings
    /\ status' = g.status
    /\ current_player' = g.current_player
    /\ players' = g.players
    /\ build_piles' = g.build_piles
    /\ draw_pile' = g.draw_pile
    /\ recycle_pile' = g.recycle_pile
    /\ turn_phase' = g.turn_phase
    /\ rng' = g.rng

\* ---- builder inputs (GameBuilder::new / with_deck / with_stock_size / with_seed)
\* tests/rules.rs build_pile_cycles_and_recycles with stocks of 8 cards and
\* one spare draw card: hand 1..5, player 0 stock top 6,7,..,12 then 1
CycleDeck ==
    <<12, 5, 4, 3, 2, 1>> \o Repeat(12, 8) \o <<6, 7, 8, 9, 10, 11, 12, 1>>

\* tests/rules.rs detects_stalemate_draw_when_no_draws_and_no_plays: no draw
\* cards, every stock card a 12
StalemateDeck == <<12, 12, 12, 12>>

\* three players with one stock card each (2, 1 and a wildcard) and a draw
\* pile of three cards: hand 2, SkipBo, 3
WildDeck == <<3, SkipBo, 2, SkipBo, 1, 2>>

\* two players with one stock card each and a draw pile of eleven cards, none
\* of them playable on an empty build pile: the hands are filled to five
\* 12s, discarded from, and the first is topped up again with the 2
RefillDeck == <<2>> \o Repeat(12, 10) \o <<12, 11>>

Configs ==
    { [num_players |-> 2, seed |-> 7, stock_size |-> Some(8),
        deck |-> Some(CycleDeck)],
      [num_players |-> 2, seed |-> 5, stock_size |-> Some(1),
        deck |-> Some(RefillDeck)],
      [num_players |-> 2, seed |-> 1, stock_size |-> Some(2),
        deck |-> Some(StalemateDeck)],
      [num_players |-> 3, seed |-> 3, stock_size |-> Some(1),
        deck |-> Some(WildDeck)] }

\* ---- caller inputs
MaxTurns == 13
MaxHandArg == 0
MaxDiscardArg == 0
MaxBuildArg == 0

HandArgs == 0..MaxHandArg \cup {HAND_SIZE}
DiscardArgs == 0..MaxDiscardArg \cup {DISCARD_PILE_COUNT}
BuildArgs == 0..MaxBuildArg \cup {BUILD_PILE_COUNT}
PlayerArgs == 0..settings.num_players

SourceArgs ==
    {Hand(i) : i \in HandArgs} \cup {Stock} \cup {SrcDiscard(d) : d \in DiscardArgs}

ActionArgs ==
    {Play(src, b) : src \in SourceArgs, b \in BuildArgs}
    \cup {Discard(h, d) : h \in HandArgs, d \in DiscardArgs}
    \cup {EndTurn}

\* nothing applied yet: the game comes from GameBuilder::build
NoCall == "build"

\* no free function is being called
NoFunction == [op |-> "none", arg |-> << >>, ret |-> << >>, done |-> FALSE]

\* the stalemate of tests/rules.rs: no supply, empty hands, nothing playable
Playable(g, card) ==
    card # NoCard /\ \E b \in DOMAIN g.build_piles :
                        matches_value(card, next_value(g.build_piles[b]))

Stalemate(g) ==
    /\ g.status.tag = "Ongoing"
    /\ g.draw_pile = << >> /\ g.recycle_pile = << >>
    /\ \A p \in DOMAIN g.players :
         /\ g.players[p].hand = << >>
         /\ ~Playable(g, IF g.players[p].stock = << >> THEN NoCard
                         ELSE g.players[p].stock[Len(g.players[p].stock)])
         /\ \A d \in 0..(DISCARD_PILE_COUNT - 1) :
                ~Playable(g, discard_top(g.players[p], d))

Init ==
    \E c \in Configs :
       /\ from_builder(c).result = Ok
       /\ config = c
       /\ LET g == from_builder(c).game
          IN  /\ settings = g.settings
              /\ status = g.status
              /\ current_player = g.current_player
              /\ players = g.players
              /\ build_piles = g.build_piles
              /\ draw_pile = g.draw_pile
              /\ recycle_pile = g.recycle_pile
              /\ turn_phase = g.turn_phase
              /\ rng = g.rng
       /\ last = NoCall
       /\ end_turns = 0
       /\ turns = 0
       /\ call = NoFunction

\* game.apply_action(player, action), called while the caller's turn limit
\* (bin/simulate.rs max_turns) is not reached; an Err leaves everything as it was
ApplyAction ==
    \E player \in PlayerArgs, action \in ActionArgs :
       LET r == apply_action(Game, player, action)
       IN  /\ turns < MaxTurns
           /\ SetGame(r.game)
           /\ UNCHANGED <<config, call>>
           /\ turns' = IF r.result = Ok THEN turns + 1 ELSE turns
           /\ last' = IF r.result = Ok THEN action.kind ELSE last
           /\ end_turns' =
                IF r.result = Ok /\ action = EndTurn /\ Stalemate(Game)
                THEN (IF end_turns < 2 * settings.num_players
                      THEN end_turns + 1 ELSE end_turns)
                ELSE IF r.result = Ok THEN 0 ELSE end_turns

\* game.legal_actions(player): a &self method, the list goes to the caller
LegalActions ==
    \E player \in PlayerArgs :
       /\ legal_actions(Game, player).result \in
             {Ok, Err("InvalidPlayer", player), Err("NotPlayersTurn", 0)}
       /\ UNCHANGED vars

\* game.state_view(perspective): a &self method, the snapshot goes to the caller
StateView ==
    \E perspective \in PlayerArgs :
       /\ state_view(Game, perspective).result \in
             {Ok, Err("InvalidPlayer", perspective)}
       /\ UNCHANGED vars

\* the logits of a policy network: any f32 per index; a few vectors with
\* ties, a strict order in both directions and NaN entries
MaxNetArg == 3
LogitMod == 7
PolicyValues ==
    {[i \in 0..(MAX_ACTIONS - 1) |-> (i * m) % LogitMod] : m \in 0..MaxNetArg}
    \cup {[i \in 0..(MAX_ACTIONS - 1) |-> MAX_ACTIONS - i],
          [i \in 0..(MAX_ACTIONS - 1) |-> IF i % 2 = 0 THEN NaN ELSE i % LogitMod],
          [i \in 0..(MAX_ACTIONS - 1) |-> NaN]}

\* the lists a caller hands to a bot: the list legal_actions returned for the
\* player to move, and lists of the caller's own with an entry action_index
\* has no index for
BotLists ==
    LET la == legal_actions(Game, current_player)
    IN  (IF la.result = Ok /\ la.actions # << >> THEN {la.actions} ELSE {})
        \cup {<<Play(Hand(HAND_SIZE), 0), Discard(0, DISCARD_PILE_COUNT)>>,
              <<Discard(HAND_SIZE, 0), EndTurn, Play(Stock, 0)>>}

\* the snapshots a caller can hand to a bot
BotViews ==
    {state_view(Game, p).view : p \in 0..(settings.num_players - 1)}

\* the generator states a RandomBot is called in
MaxBotRng == 7

\* bot.select_action(&state, &legal_actions) as bin/simulate.rs calls it, with
\* the snapshot of the player to move; the game is not touched and the choice
\* goes to the caller
SelectAction ==
    \E legal \in BotLists :
       LET state == state_view(Game, current_player).view
       IN  /\ Len(legal) > 0
           /\ \/ \E r \in 0..MaxBotRng :
                    RandomBot_select_action(r, state, legal).kind
                        \in {"Play", "Discard", "EndTurn"}
              \/ HeuristicBot_select_action(state, legal).kind
                    \in {"Play", "Discard", "EndTurn"}
              \/ \E values \in PolicyValues :
                    PolicyBot_select_action(values, state, legal).kind
                        \in {"Play", "Discard", "EndTurn"}
           /\ UNCHANGED vars

Next == ApplyAction \/ LegalActions \/ StateView \/ SelectAction

Spec == Init /\ [][Next]_vars

\* the engine driven without a bot, as the tests of tests/rules.rs drive it:
\* the caller picks every action itself
NextRules == ApplyAction \/ LegalActions \/ StateView

SpecRules == Init /\ [][NextRules]_vars

\* the engine under a caller that only applies actions and reads nothing back
NextApply == ApplyAction

SpecApply == Init /\ [][NextApply]_vars

\* every argument a caller can pass, in and out of range
AllPlayers == 0..MAX_PLAYERS
AllSources ==
    {Hand(i) : i \in 0..HAND_SIZE} \cup {Stock}
    \cup {SrcDiscard(d) : d \in 0..DISCARD_PILE_COUNT}
AllPlays == {Play(src, b) : src \in AllSources, b \in 0..BUILD_PILE_COUNT}
AllActions ==
    AllPlays
    \cup {Discard(h, d) : h \in 0..HAND_SIZE, d \in 0..DISCARD_PILE_COUNT}
    \cup {EndTurn}

\* ============================================== the builder on its own
\* GameBuilder::new(num_players), with_seed, with_deck, with_stock_size and
\* build, for every builder a caller can set up within the bounds; last is
\* "new" until build has been called, then "build" or the error's name
MaxPlayersArg == 7
MaxStockArg == 3
Seeds == {1, 7}

BuilderConfigs ==
    [num_players : 0..MaxPlayersArg,
     seed : Seeds,
     stock_size : {None} \cup {Some(n) : n \in 0..MaxStockArg},
     deck : {None, Some(CycleDeck), Some(StalemateDeck), Some(WildDeck)}]

\* no Game value: what the caller holds before build and after an Err
NoGame ==
    [settings |-> GameSettings_new(0).settings, status |-> Ongoing,
     current_player |-> 0, players |-> << >>, build_piles |-> << >>,
     draw_pile |-> << >>, recycle_pile |-> << >>,
     turn_phase |-> "AwaitingAction", rng |-> 0]

InitBuild ==
    /\ config \in BuilderConfigs
    /\ settings = NoGame.settings
    /\ status = NoGame.status
    /\ current_player = NoGame.current_player
    /\ players = NoGame.players
    /\ build_piles = NoGame.build_piles
    /\ draw_pile = NoGame.draw_pile
    /\ recycle_pile = NoGame.recycle_pile
    /\ turn_phase = NoGame.turn_phase
    /\ rng = NoGame.rng
    /\ last = "new"
    /\ end_turns = 0
    /\ turns = 0
    /\ call = NoFunction

\* builder.build(): Ok(game) or Err(InvalidConfiguration), which carries no game
Build ==
    /\ last = "new"
    /\ LET r == from_builder(config)
       IN  IF r.result = Ok
           THEN SetGame(r.game) /\ last' = NoCall
           ELSE SetGame(NoGame) /\ last' = r.result.tag
    /\ UNCHANGED <<config, end_turns, turns, call>>

NextBuild == Build

SpecBuild == InitBuild /\ [][NextBuild]_vars

\* ==================================== the free functions on their own
\* ActionSpace and winner_points take no game: each is called on arguments
\* of the caller's choosing
MaxIndexArg == MAX_ACTIONS + 1
MaxStockCount == 2
MaxScorePlayers == 3
MaxFill == 1

\* a finished-game snapshot with the given stock counts; fill varies every
\* field winner_points does not read
ScoreView(stock_counts, winner_id, fill) ==
    [settings |-> [num_players |-> Len(stock_counts), stock_size |-> 30,
                   hand_size |-> HAND_SIZE, discard_piles |-> DISCARD_PILE_COUNT,
                   build_piles |-> BUILD_PILE_COUNT],
     phase |-> "GameOver",
     status |-> IF fill = 0 THEN Finished(winner_id) ELSE Draw,
     self_player |-> IF fill = 0 THEN winner_id ELSE 0,
     current_player |-> IF fill = 0 THEN winner_id ELSE 0,
     draw_pile_count |-> fill,
     recycle_pile_count |-> fill,
     build_piles |-> [idx \in 0..(BUILD_PILE_COUNT - 1) |->
                        as_view(Repeat(SkipBo, fill))],
     players |-> [idx \in 0..(Len(stock_counts) - 1) |->
                    [id |-> idx,
                     stock_count |-> stock_counts[idx + 1],
                     stock_top |-> IF fill = 0 THEN NoCard ELSE fill,
                     discard_tops |-> [d \in 0..(DISCARD_PILE_COUNT - 1) |->
                                         IF fill = 0 THEN NoCard ELSE fill],
                     discard_counts |-> [d \in 0..(DISCARD_PILE_COUNT - 1) |-> fill],
                     hand_size |-> fill,
                     is_current |-> fill # 0,
                     has_won |-> fill = 0 /\ idx = winner_id]],
     hand |-> Repeat(SkipBo, fill)]

StockCounts ==
    UNION {[1..n -> 0..MaxStockCount] : n \in 2..MaxScorePlayers}

ActionIndexCalls ==
    {[op |-> "action_index", arg |-> a, ret |-> None, done |-> FALSE] :
        a \in AllActions}

IndexToActionCalls ==
    {[op |-> "index_to_action", arg |-> i, ret |-> None, done |-> FALSE] :
        i \in 0..MaxIndexArg}

WinnerPointsCalls ==
    {[op |-> "winner_points",
      arg |-> [state |-> ScoreView(sc, w, f), winner |-> w],
      ret |-> 0, done |-> FALSE] :
        sc \in StockCounts, w \in 0..MaxScorePlayers, f \in 0..MaxFill}

InitFunctions ==
    /\ settings = NoGame.settings
    /\ status = NoGame.status
    /\ current_player = NoGame.current_player
    /\ players = NoGame.players
    /\ build_piles = NoGame.build_piles
    /\ draw_pile = NoGame.draw_pile
    /\ recycle_pile = NoGame.recycle_pile
    /\ turn_phase = NoGame.turn_phase
    /\ rng = NoGame.rng
    /\ config = [num_players |-> 0, seed |-> 0, stock_size |-> None, deck |-> None]
    /\ last = "none"
    /\ end_turns = 0
    /\ turns = 0
    /\ \/ call \in ActionIndexCalls
       \/ call \in IndexToActionCalls
       \/ call \in WinnerPointsCalls

ActionIndex ==
    /\ call.op = "action_index" /\ ~call.done
    /\ call' = [call EXCEPT !.ret = action_index(call.arg), !.done = TRUE]
    /\ UNCHANGED <<settings, status, current_player, players, build_piles,
                   draw_pile, recycle_pile, turn_phase, rng, config, last,
                   end_turns, turns>>

IndexToAction ==
    /\ call.op = "index_to_action" /\ ~call.done
    /\ call' = [call EXCEPT !.ret = index_to_action(call.arg), !.done = TRUE]
    /\ UNCHANGED <<settings, status, current_player, players, build_piles,
                   draw_pile, recycle_pile, turn_phase, rng, config, last,
                   end_turns, turns>>

WinnerPoints ==
    /\ call.op = "winner_points" /\ ~call.done
    /\ call' = [call EXCEPT !.ret = winner_points(call.arg.state, call.arg.winner),
                            !.done = TRUE]
    /\ UNCHANGED <<settings, status, current_player, players, build_piles,
                   draw_pile, recycle_pile, turn_phase, rng, config, last,
                   end_turns, turns>>

NextFunctions == ActionIndex \/ IndexToAction \/ WinnerPoints

SpecFunctions == InitFunctions /\ [][NextFunctions]_vars

\* ================================================================= claims
Min(a, b) == IF a < b THEN a ELSE b
SeqToSet(s) == {s[k] : k \in DOMAIN s}
Terminal(g) == g.status.tag \in {"Finished", "Draw"}

PlayerCards(ps) ==
    Len(ps.stock) + Len(ps.hand)
    + SumSeq([d \in 1..DISCARD_PILE_COUNT |-> Len(ps.discard_piles[d - 1])])

TotalCards(g) ==
    Len(g.draw_pile) + Len(g.recycle_pile)
    + SumSeq([p \in 1..NumPlayers(g) |-> PlayerCards(g.players[p - 1])])
    + SumSeq([b \in 1..BUILD_PILE_COUNT |-> Len(g.build_piles[b - 1])])

\* C1: in every reachable state the cards in the draw pile, the recycle pile,
\* every stock, hand and discard pile and every build pile add up to the size
\* of the deck the game was built from.
C1_CardConservation == TotalCards(Game) = Len(config.deck[1])

\* a completed pile has been recycled, reshuffled into the draw pile and drawn
C1_Witness ==
    /\ last = "EndTurn"
    /\ rng # seed_from_u64(config.seed)
    /\ recycle_pile = << >>
    /\ \E p \in DOMAIN players : Len(players[p].hand) = HAND_SIZE

\* C2: a successful Play that leaves the active player's stock empty returns
\* with status Finished{winner: that player}, has_won set, turn_phase GameOver
\* and current_player unchanged, whatever is left in the hand.
C2_WinImmediacy ==
    \A action \in AllPlays :
       LET r == apply_action(Game, current_player, action)
       IN  (r.result = Ok /\ r.game.players[current_player].stock = << >>)
           => /\ r.game.status = Finished(current_player)
              /\ r.game.players[current_player].has_won
              /\ r.game.turn_phase = "GameOver"
              /\ r.game.current_player = current_player

\* a play has just won the game while the winner still holds hand cards
C2_Witness ==
    /\ last = "Play"
    /\ status = Finished(current_player)
    /\ players[current_player].stock = << >>
    /\ players[current_player].hand # << >>

\* C3: a successful Play from the hand that removes the last hand card and
\* leaves the game Ongoing returns with the hand refilled from the supply (the
\* hand is full, or draw and recycle piles are both empty) and the turn not
\* passed on.
C3_HandAutoRefill ==
    \A i \in 0..(HAND_SIZE - 1), b \in 0..(BUILD_PILE_COUNT - 1) :
       LET r == apply_action(Game, current_player, Play(Hand(i), b))
       IN  (/\ r.result = Ok
            /\ Len(players[current_player].hand) = 1
            /\ r.game.status = Ongoing)
           => /\ r.game.current_player = current_player
              /\ Len(r.game.players[current_player].hand) =
                   Min(settings.hand_size,
                       Len(r.game.players[current_player].hand)
                       + Len(r.game.draw_pile) + Len(r.game.recycle_pile))

\* C4: from a stalemate (no supply, empty hands, nothing playable) the game
\* is a Draw once 2 x num_players EndTurns have been applied.
C4_StalemateDraw ==
    end_turns >= 2 * settings.num_players => status = Draw

\* C5: once the game is terminal every apply_action returns GameOver and
\* changes nothing, and legal_actions returns an empty list.
C5_TerminalAbsorbing ==
    Terminal(Game) =>
       \A player \in AllPlayers :
          /\ legal_actions(Game, player) = [result |-> Ok, actions |-> << >>]
          /\ \A action \in AllActions :
                apply_action(Game, player, action) =
                   [result |-> Err("GameOver", 0), game |-> Game]

\* a finished game on which the player who was next in turn tries to end
\* the turn, and gets GameOver
C5_Witness ==
    /\ Terminal(Game)
    /\ last = "Play"
    /\ apply_action(Game, current_player, EndTurn).result = Err("GameOver", 0)
    /\ players[current_player].hand = << >>

\* C6 (as claimed): for the active player of an Ongoing game legal_actions is
\* exactly <<EndTurn>> when the hand is empty, and holds no EndTurn when the
\* hand is not empty.
C6_OnlyEndTurn ==
    status = Ongoing =>
       LET acts == legal_actions(Game, current_player).actions
       IN  IF players[current_player].hand = << >>
           THEN acts = <<EndTurn>>
           ELSE EndTurn \notin SeqToSet(acts)

\* C6 (amended): with an empty hand the list ends with its only EndTurn and
\* holds, before it, only plays from the stock or a discard pile; with a
\* non-empty hand it holds no EndTurn.
C6_LegalityExclusivity ==
    status = Ongoing =>
       LET r == legal_actions(Game, current_player)
           acts == r.actions
       IN  /\ r.result = Ok
           /\ IF players[current_player].hand = << >>
              THEN /\ acts # << >>
                   /\ acts[Len(acts)] = EndTurn
                   /\ \A k \in 1..(Len(acts) - 1) :
                         /\ acts[k].kind = "Play"
                         /\ acts[k].source.kind \in {"Stock", "Discard"}
              ELSE EndTurn \notin SeqToSet(acts)

\* the hand has been played empty and legal_actions offers more than EndTurn
C6_Witness ==
    /\ status = Ongoing
    /\ last = "Play"
    /\ players[current_player].hand = << >>
    /\ Len(legal_actions(Game, current_player).actions) > 1

\* C7: the play that puts the 12th card on a build pile returns with that
\* pile empty, its next_value 1, and the recycle pile extended by exactly the
\* 12 cards of the pile, in pile order.
C7_BuildPileCycle ==
    \A action \in AllPlays :
       LET r == apply_action(Game, current_player, action)
       IN  (r.result = Ok /\ Len(build_piles[action.b]) = MAX_CARD_VALUE - 1)
           => /\ r.game.build_piles[action.b] = << >>
              /\ next_value(r.game.build_piles[action.b]) = 1
              /\ Len(r.game.recycle_pile) = Len(recycle_pile) + MAX_CARD_VALUE
              /\ r.game.recycle_pile =
                   recycle_pile \o build_piles[action.b]
                   \o <<peek_source(players[current_player], action.source).card>>

\* the 12th card has just been played: the pile is in the recycle pile
C7_Witness ==
    /\ last = "Play"
    /\ recycle_pile = <<1, 2, 3, 4, 5, 6, 7, 8, 9, 10, 11, 12>>
    /\ \A b \in DOMAIN build_piles : build_piles[b] = << >>

\* C8: between calls every build pile holds 0..11 cards and its next_value is
\* len + 1, so within 1..12.
C8_BuildPileRange ==
    \A b \in DOMAIN build_piles :
       /\ Len(build_piles[b]) <= MAX_CARD_VALUE - 1
       /\ next_value(build_piles[b]) = Len(build_piles[b]) + 1
       /\ next_value(build_piles[b]) \in 1..MAX_CARD_VALUE

\* a pile one card short of complete
C8_Witness ==
    \E b \in DOMAIN build_piles :
       /\ Len(build_piles[b]) = MAX_CARD_VALUE - 1
       /\ next_value(build_piles[b]) = MAX_CARD_VALUE

\* C9 (as claimed): in every reachable state, terminal or not, legal_actions
\* fails with InvalidPlayer for player >= num_players and with NotPlayersTurn
\* for an in-range player other than current_player, and returns an empty
\* list once the game is terminal.
C9_GuardsEverywhere ==
    \A player \in AllPlayers :
       LET r == legal_actions(Game, player)
       IN  /\ player >= settings.num_players
                => r.result = Err("InvalidPlayer", player)
           /\ (player < settings.num_players /\ player # current_player)
                => r.result = Err("NotPlayersTurn", 0)
           /\ (Terminal(Game) /\ r.result = Ok) => r.actions = << >>

\* C9 (amended): while the game is not terminal legal_actions fails with
\* InvalidPlayer for player >= num_players and with NotPlayersTurn for an
\* in-range player other than current_player; once the game is terminal it
\* returns Ok with an empty list for every player argument.
C9_LegalActionsGuards ==
    \A player \in AllPlayers :
       LET r == legal_actions(Game, player)
       IN  IF Terminal(Game)
           THEN r = [result |-> Ok, actions |-> << >>]
           ELSE /\ player >= settings.num_players
                     => r.result = Err("InvalidPlayer", player)
                /\ (player < settings.num_players /\ player # current_player)
                     => r.result = Err("NotPlayersTurn", 0)

\* a finished three-player game: legal_actions answers Ok and empty for the
\* out-of-range player 3, which it refused with InvalidPlayer at the start
C9_Witness ==
    /\ Terminal(Game)
    /\ settings.num_players = 3
    /\ legal_actions(Game, 3) = [result |-> Ok, actions |-> << >>]
    /\ legal_actions(from_builder(config).game, 3).result = Err("InvalidPlayer", 3)

\* C10: in an Ongoing game apply_action returns InvalidPlayer for
\* player >= num_players and NotPlayersTurn for an in-range player other than
\* current_player, whatever the action, and changes nothing.
C10_ApplyActionGuards ==
    status = Ongoing =>
       \A player \in AllPlayers, action \in AllActions :
          LET r == apply_action(Game, player, action)
          IN  /\ player >= settings.num_players
                   => r = [result |-> Err("InvalidPlayer", player), game |-> Game]
              /\ (player < settings.num_players /\ player # current_player)
                   => r = [result |-> Err("NotPlayersTurn", 0), game |-> Game]

\* a running game after a turn has passed: player num_players is refused
\* with InvalidPlayer and the player who just discarded with NotPlayersTurn
C10_Witness ==
    /\ status = Ongoing
    /\ last = "Discard"
    /\ apply_action(Game, settings.num_players, EndTurn).result =
          Err("InvalidPlayer", settings.num_players)
    /\ \E p \in DOMAIN players :
          /\ p # current_player
          /\ apply_action(Game, p, Discard(0, 0)).result = Err("NotPlayersTurn", 0)

\* C11: a successful Discard{hand_index, discard_pile} by the active player
\* removes exactly the hand card at hand_index (the other hand cards keep
\* their order), puts that card on top of the chosen discard pile of that
\* player, leaves the player's other piles as they were, and passes the turn:
\* current_player is (previous + 1) mod num_players on return.
C11_DiscardEffect ==
    \A h \in 0..HAND_SIZE, d \in 0..DISCARD_PILE_COUNT :
       LET r == apply_action(Game, current_player, Discard(h, d))
           before == players[current_player]
           after == r.game.players[current_player]
       IN  r.result = Ok =>
             /\ h < Len(before.hand) /\ d < DISCARD_PILE_COUNT
             /\ Len(after.hand) = Len(before.hand) - 1
             /\ \A k \in 1..Len(after.hand) :
                   after.hand[k] = IF k <= h THEN before.hand[k]
                                   ELSE before.hand[k + 1]
             /\ after.discard_piles[d] =
                   before.discard_piles[d] \o <<before.hand[h + 1]>>
             /\ \A o \in 0..(DISCARD_PILE_COUNT - 1) :
                   o # d => after.discard_piles[o] = before.discard_piles[o]
             /\ after.stock = before.stock
             /\ r.game.current_player =
                   (current_player + 1) % settings.num_players
             /\ r.game.current_player # current_player

\* a turn has just been ended by a discard: the player before the current one
\* holds four hand cards and one discarded card, and a discard onto the second
\* discard pile is open to the current player
C11_Witness ==
    /\ last = "Discard"
    /\ status = Ongoing
    /\ LET prev == (current_player + settings.num_players - 1)
                      % settings.num_players
       IN  /\ Len(players[prev].hand) = HAND_SIZE - 1
           /\ Len(players[prev].discard_piles[0]) = 1
    /\ apply_action(Game, current_player, Discard(0, 1)).result = Ok

\* C12: in an Ongoing game EndTurn by the active player returns Ok if and
\* only if that player's hand is empty; with a non-empty hand it returns
\* MustDiscard and the game (current_player, every pile) is left as it was.
C12_EndTurnOnlyEmptyHand ==
    status = Ongoing =>
       LET r == apply_action(Game, current_player, EndTurn)
       IN  /\ r.result = Ok <=> players[current_player].hand = << >>
           /\ players[current_player].hand # << >>
                 => r = [result |-> Err("MustDiscard", 0), game |-> Game]

\* a turn has just been ended with an empty hand, and the player it passed
\* to holds cards: an EndTurn of that player is refused with MustDiscard
C12_Witness ==
    /\ last = "EndTurn"
    /\ status = Ongoing
    /\ players[current_player].hand # << >>
    /\ apply_action(Game, current_player, EndTurn).result = Err("MustDiscard", 0)

\* the calls that end a turn
TurnEnders ==
    {Discard(h, d) : h \in 0..HAND_SIZE, d \in 0..DISCARD_PILE_COUNT}
    \cup {EndTurn}

\* C13: every successful Discard or EndTurn in an Ongoing game sets
\* current_player to (current + 1) mod num_players, and the new current
\* player's hand is its previous hand followed by cards drawn from the supply,
\* min(hand_size, previous hand size + cards in draw_pile and recycle_pile)
\* cards in all; the supply shrinks by the cards drawn.
C13_TurnEnd ==
    status = Ongoing =>
       \A action \in TurnEnders :
          LET r == apply_action(Game, current_player, action)
              next == (current_player + 1) % settings.num_players
              before == players[next].hand
              after == r.game.players[next].hand
              supply == Len(draw_pile) + Len(recycle_pile)
          IN  r.result = Ok =>
                /\ r.game.current_player = next
                /\ next # current_player
                /\ r.game.turn_phase = "AwaitingAction"
                /\ Len(after) = Min(settings.hand_size, Len(before) + supply)
                /\ SubSeq(after, 1, Len(before)) = before
                /\ Len(r.game.draw_pile) + Len(r.game.recycle_pile) =
                      supply - (Len(after) - Len(before))

\* the turn has passed to the third of three players, whose hand could not be
\* filled: the supply ran out
C13_Witness ==
    /\ last \in {"Discard", "EndTurn"}
    /\ status = Ongoing
    /\ current_player = 2
    /\ Len(players[current_player].hand) < settings.hand_size
    /\ draw_pile = << >> /\ recycle_pile = << >>

\* C14: draw_card returns None only when draw_pile and recycle_pile are both
\* empty, and a card whenever one of them holds a card; so a hand refilled at
\* a turn end is short of hand_size only if both piles are empty afterwards.
C14_DrawOnlyFailsWhenEmpty ==
    /\ draw_card(Game).card = NoCard
          <=> (draw_pile = << >> /\ recycle_pile = << >>)
    /\ status = Ongoing =>
          \A action \in TurnEnders :
             LET r == apply_action(Game, current_player, action)
             IN  r.result = Ok =>
                   (Len(r.game.players[r.game.current_player].hand)
                         < settings.hand_size
                    => (r.game.draw_pile = << >> /\ r.game.recycle_pile = << >>))

\* a turn has just ended with a refill that emptied the draw pile, reshuffled
\* the twelve recycled cards into it and went on drawing to a full hand
C14_Witness ==
    /\ last = "EndTurn"
    /\ status = Ongoing
    /\ rng = Shuffle(<<1, 2, 3, 4, 5, 6, 7, 8, 9, 10, 11, 12>>,
                     seed_from_u64(config.seed)).rng
    /\ recycle_pile = << >>
    /\ Len(draw_pile) = MAX_CARD_VALUE + 1 - HAND_SIZE
    /\ Len(players[current_player].hand) = settings.hand_size

Reverse(s) == [k \in 1..Len(s) |-> s[Len(s) + 1 - k]]

\* C15: the game a call returns is a function of the game it was given and of
\* the call, and the generator, its only source of randomness, starts from
\* the seed and is consumed only by shuffles: a game built from a deck
\* override starts with the generator as seeded, a Play, a failing call and a
\* turn end that needs no reshuffle leave it as it was, and a turn end whose
\* refill runs the draw pile dry with cards in the recycle pile leaves the
\* generator and the draw order exactly as the shuffle of the recycle pile by
\* the current generator gives them.
C15_RngConsumption ==
    /\ (last = NoCall /\ config.deck # None) => rng = seed_from_u64(config.seed)
    /\ \A action \in AllActions :
          LET r == apply_action(Game, current_player, action)
              next == (current_player + 1) % settings.num_players
              missing == settings.hand_size - Len(players[next].hand)
              reshuffles == /\ r.result = Ok
                            /\ action \in TurnEnders
                            /\ recycle_pile # << >>
                            /\ Len(draw_pile) < missing
              sh == Shuffle(recycle_pile, rng)
              drawn == SubSeq(r.game.players[next].hand,
                              Len(players[next].hand) + Len(draw_pile) + 1,
                              Len(r.game.players[next].hand))
          IN  IF reshuffles
              THEN /\ r.game.rng = sh.rng
                   /\ r.game.draw_pile \o Reverse(drawn) = sh.cards
                   /\ r.game.recycle_pile = << >>
              ELSE r.game.rng = rng

\* the turn end of the cycle deck that reshuffled the recycled pile 1..12:
\* generator, draw pile and the four cards drawn after the old draw card 12
\* are those of the shuffle from the seed
C15_Witness ==
    LET sh == Shuffle(<<1, 2, 3, 4, 5, 6, 7, 8, 9, 10, 11, 12>>,
                      seed_from_u64(config.seed))
    IN  /\ last = "EndTurn"
        /\ rng = sh.rng
        /\ rng # seed_from_u64(config.seed)
        /\ draw_pile = SubSeq(sh.cards, 1, 8)
        /\ players[current_player].hand =
              <<12, sh.cards[12], sh.cards[11], sh.cards[10], sh.cards[9]>>

\* a card face no deck holds (below NoCard), put where a card is concealed
Hidden == NoCard - 1
Mask(s) == [k \in 1..Len(s) |-> Hidden]
MaskBelowTop(s) == [k \in 1..Len(s) |-> IF k = Len(s) THEN s[k] ELSE Hidden]

\* the game with everything concealed that perspective may not see: the
\* cards of the other hands, of the draw and recycle piles, and of every stock
\* and discard pile below the top. Two games differ only in those cards
\* exactly when Conceal maps them to the same game.
Conceal(g, perspective) ==
    [g EXCEPT
       !.draw_pile = Mask(@),
       !.recycle_pile = Mask(@),
       !.players = [idx \in DOMAIN g.players |->
                      [stock |-> MaskBelowTop(g.players[idx].stock),
                       hand |-> IF idx = perspective THEN g.players[idx].hand
                                ELSE Mask(g.players[idx].hand),
                       discard_piles |->
                          [d \in DOMAIN g.players[idx].discard_piles |->
                              MaskBelowTop(g.players[idx].discard_piles[d])],
                       has_won |-> g.players[idx].has_won]]]

\* C16: state_view(perspective) holds the hand of perspective and no other
\* hidden card: the snapshot of a game equals the snapshot of the same game
\* with the other hands, the draw and recycle piles and the stock and discard
\* cards below the top concealed, so two games that differ only in those
\* cards give perspective identical snapshots; a perspective that is no
\* player is refused with InvalidPlayer.
C16_ViewHidesOthers ==
    \A perspective \in AllPlayers :
       LET v == state_view(Game, perspective)
       IN  IF perspective >= settings.num_players
           THEN v.result = Err("InvalidPlayer", perspective)
           ELSE /\ v.result = Ok
                /\ v.view.hand = players[perspective].hand
                /\ v = state_view(Conceal(Game, perspective), perspective)

\* the player who just discarded looks at a game in which the current player
\* holds cards and a stock of several cards: the snapshot shows the sizes
\* and the stock top, and the concealed game is another game
C16_Witness ==
    /\ last = "Discard"
    /\ status = Ongoing
    /\ players[current_player].hand # << >>
    /\ Len(players[current_player].stock) > 1
    /\ \E perspective \in DOMAIN players :
          /\ perspective # current_player
          /\ players[perspective].hand # << >>
          /\ Conceal(Game, perspective).players[current_player].hand
                # players[current_player].hand
          /\ state_view(Game, perspective).view.players[current_player].hand_size
                = Len(players[current_player].hand)
          /\ state_view(Game, perspective).view.hand = players[perspective].hand

\* the deck a builder deals from, and the stock size the rules give it
DeckSize(c) == IF c.deck # None THEN Len(c.deck[1]) ELSE Len(full_deck)
DefaultStock(n) == IF n <= 4 THEN 30 ELSE 20
StockAsked(c) ==
    IF c.stock_size # None THEN c.stock_size[1] ELSE DefaultStock(c.num_players)

\* C17: a game just built for n players from a deck of D cards with stock
\* size s is Ongoing with current_player 0, every player holds exactly s stock
\* cards, player 0 holds min(5, D - n*s) hand cards and every other player
\* none, every discard pile, every build pile and the recycle pile are empty,
\* and the draw pile holds D - n*s - |hand of player 0| cards: 97 for 2
\* players and the default deck and stock size.
C17_InitialState ==
    last = NoCall =>
       LET n == config.num_players
           D == DeckSize(config)
           s == settings.stock_size
       IN  /\ n * s <= D
           /\ status = Ongoing
           /\ turn_phase = "AwaitingAction"
           /\ current_player = 0
           /\ settings.num_players = n
           /\ DOMAIN players = 0..(n - 1)
           /\ \A p \in DOMAIN players :
                 /\ Len(players[p].stock) = s
                 /\ Len(players[p].hand) = IF p = 0 THEN Min(HAND_SIZE, D - n * s)
                                           ELSE 0
                 /\ \A d \in 0..(DISCARD_PILE_COUNT - 1) :
                       players[p].discard_piles[d] = << >>
                 /\ ~players[p].has_won
           /\ DOMAIN build_piles = 0..(BUILD_PILE_COUNT - 1)
           /\ \A b \in DOMAIN build_piles : build_piles[b] = << >>
           /\ recycle_pile = << >>
           /\ Len(draw_pile) = D - n * s - Len(players[0].hand)
           /\ (n = 2 /\ config.deck = None /\ config.stock_size = None)
                 => Len(draw_pile) = 97

\* two players built from the shuffled default deck with the default stock
\* size: 30 stock cards each, five hand cards for player 0, 97 draw cards
C17_Witness ==
    /\ last = NoCall
    /\ config.num_players = 2
    /\ config.deck = None /\ config.stock_size = None
    /\ rng = Shuffle(full_deck, seed_from_u64(config.seed)).rng
    /\ Len(players[0].stock) = 30 /\ Len(players[1].stock) = 30
    /\ Len(players[0].hand) = 5
    /\ Len(draw_pile) = 97

\* C18: the stock size of a game just built is the override when the builder
\* was given one, and otherwise 30 for 2, 3 or 4 players and 20 for 5 or 6;
\* every player is dealt that many stock cards, 120 in all for 6 players
\* without an override.
C18_StockSize ==
    last = NoCall =>
       /\ settings.stock_size =
             (IF config.stock_size # None THEN config.stock_size[1]
              ELSE IF config.num_players \in {2, 3, 4} THEN 30 ELSE 20)
       /\ config.stock_size = None =>
             /\ config.num_players \in {2, 3, 4} => settings.stock_size = 30
             /\ config.num_players \in {5, 6} => settings.stock_size = 20
       /\ \A p \in DOMAIN players : Len(players[p].stock) = settings.stock_size
       /\ (config.num_players = 6 /\ config.stock_size = None) =>
             SumSeq([p \in 1..6 |-> Len(players[p - 1].stock)]) = 120

\* six players built without an override: 20 stock cards each, 120 in all
C18_Witness ==
    /\ last = NoCall
    /\ config.num_players = 6
    /\ config.stock_size = None
    /\ settings.stock_size = 20
    /\ SumSeq([p \in 1..6 |-> Len(players[p - 1].stock)]) = 120

\* C19: build returns InvalidConfiguration exactly when num_players is
\* outside 2..6, or the stock-size override is 0, or the deck holds fewer
\* than stock_size * num_players cards; after a failure there is no game, and
\* in every other case there is a game of num_players players that holds
\* every card of the deck and is Ongoing.
C19_BuildFailsOrValid ==
    last # "new" =>
       LET n == config.num_players
           invalid == \/ n < 2 \/ n > 6
                      \/ config.stock_size = Some(0)
                      \/ DeckSize(config) < StockAsked(config) * n
       IN  /\ last \in {NoCall, "InvalidConfiguration"}
           /\ last = "InvalidConfiguration" <=> invalid
           /\ from_builder(config).result =
                 (IF invalid THEN Err("InvalidConfiguration", 0) ELSE Ok)
           /\ last = "InvalidConfiguration" => Game = NoGame
           /\ last = NoCall =>
                 /\ status = Ongoing
                 /\ NumPlayers(Game) = n /\ settings.num_players = n
                 /\ settings.stock_size > 0
                 /\ TotalCards(Game) = DeckSize(config)

\* a builder with a valid player count and a positive override whose deck
\* is too small for the stocks has been refused
C19_Witness ==
    /\ last = "InvalidConfiguration"
    /\ config.num_players \in 2..MAX_PLAYERS
    /\ config.stock_size # None
    /\ config.stock_size # Some(0)
    /\ config.deck # None
    /\ Len(config.deck[1]) < config.stock_size[1] * config.num_players
    /\ Game = NoGame

\* C20: in an Ongoing game a Play by the active player onto build pile b
\* returns Ok only if the source card is the wildcard or the number equal to
\* b's next_value at the call, and the card then lies on the pile (or, having
\* completed it, on the recycle pile); a numbered source card of any other
\* value returns CardMismatch{required = next_value of b} and moves nothing.
C20_MatchingRule ==
    status = Ongoing =>
       \A action \in AllPlays :
          LET r == apply_action(Game, current_player, action)
              peek == peek_source(players[current_player], action.source)
              b == action.b
              required == IF b < BUILD_PILE_COUNT THEN next_value(build_piles[b])
                          ELSE 0
              pushed == IF b < BUILD_PILE_COUNT
                        THEN Append(build_piles[b], peek.card) ELSE << >>
          IN  /\ r.result = Ok =>
                    /\ b < BUILD_PILE_COUNT
                    /\ peek.result = Ok
                    /\ peek.card = SkipBo \/ peek.card = required
                    /\ \/ r.game.build_piles[b] = pushed
                       \/ /\ Len(pushed) = MAX_CARD_VALUE
                          /\ r.game.recycle_pile = recycle_pile \o pushed
              /\ (/\ b < BUILD_PILE_COUNT
                  /\ peek.result = Ok
                  /\ peek.card # SkipBo
                  /\ peek.card # required)
                   => r = [result |-> Err("CardMismatch", required), game |-> Game]

\* a wildcard has just been played as the next value of a pile, and the
\* numbered hand card of the player does not fit on it: CardMismatch
C20_Witness ==
    /\ last = "Play"
    /\ status = Ongoing
    /\ \E b \in DOMAIN build_piles :
          /\ build_piles[b] # << >>
          /\ build_piles[b][Len(build_piles[b])] = SkipBo
          /\ players[current_player].hand # << >>
          /\ players[current_player].hand[1] # SkipBo
          /\ apply_action(Game, current_player, Play(Hand(0), b)).result =
                Err("CardMismatch", next_value(build_piles[b]))

\* C21: in every reachable state player p has has_won set if and only if
\* status is Finished{winner: p} and p's stock is empty; so at most one player
\* has it set, and once the game is Finished no call changes the status or
\* the flags.
C21_HasWonIffWinner ==
    /\ \A p \in DOMAIN players :
          players[p].has_won <=>
             (status = Finished(p) /\ players[p].stock = << >>)
    /\ Cardinality({p \in DOMAIN players : players[p].has_won}) <= 1
    /\ status.tag = "Finished" =>
          \A player \in AllPlayers, action \in AllActions :
             LET g == apply_action(Game, player, action).game
             IN  /\ g.status = status
                 /\ \A p \in DOMAIN players :
                       g.players[p].has_won = players[p].has_won

\* a three-player game won by one player: the flag is set for the winner,
\* whose stock is empty, and for nobody else
C21_Witness ==
    /\ settings.num_players = 3
    /\ \E p \in DOMAIN players :
          /\ status = Finished(p)
          /\ players[p].has_won
          /\ players[p].stock = << >>
          /\ \A q \in DOMAIN players \ {p} :
                ~players[q].has_won /\ players[q].stock # << >>

\* C22: in every reachable state turn_phase is GameOver exactly when status
\* is Finished or Draw, and AwaitingAction exactly when status is Ongoing;
\* the same holds for the game every call by the active player returns.
C22_PhaseMirrorsStatus ==
    /\ turn_phase \in {"AwaitingAction", "GameOver"}
    /\ turn_phase = "GameOver" <=> status.tag \in {"Finished", "Draw"}
    /\ turn_phase = "AwaitingAction" <=> status = Ongoing
    /\ \A action \in AllActions :
          LET g == apply_action(Game, current_player, action).game
          IN  /\ g.turn_phase = "GameOver" <=> g.status.tag \in {"Finished", "Draw"}
              /\ g.turn_phase = "AwaitingAction" <=> g.status = Ongoing

\* a two-player game just won by a play: Finished and GameOver
C22_Witness ==
    /\ last = "Play"
    /\ settings.num_players = 2
    /\ status.tag = "Finished"
    /\ turn_phase = "GameOver"

\* C23: in an Ongoing game a Play by the active player with a bad index or an
\* empty source returns an error value and leaves the game as it was:
\* build_pile >= 4 gives BuildPileIndex; with the build pile in range,
\* Hand(i) with i >= hand length gives HandIndex, Discard(d) with d >= 4 gives
\* DiscardIndex, and Stock or Discard(d) on an empty pile gives
\* NoCardAvailable. A player whose stock is empty (the winner) gets
\* NoCardAvailable from the stock peek.
C23_PlayErrors ==
    /\ \A p \in DOMAIN players :
          players[p].stock = << >> =>
             /\ peek_source(players[p], Stock).result = Err("NoCardAvailable", 0)
             /\ take_from_source(players[p], Stock) =
                   [result |-> Err("NoCardAvailable", 0), card |-> NoCard,
                    player |-> players[p]]
    /\ status = Ongoing =>
          \A action \in AllPlays :
             LET r == apply_action(Game, current_player, action)
                 ps == players[current_player]
                 src == action.source
                 b == action.b
                 fails(tag, arg) == r = [result |-> Err(tag, arg), game |-> Game]
             IN  /\ b >= BUILD_PILE_COUNT => fails("BuildPileIndex", b)
                 /\ b < BUILD_PILE_COUNT =>
                       /\ (src.kind = "Hand" /\ src.index >= Len(ps.hand))
                             => fails("HandIndex", src.index)
                       /\ (src.kind = "Discard" /\ src.index >= DISCARD_PILE_COUNT)
                             => fails("DiscardIndex", src.index)
                       /\ (/\ src.kind = "Discard"
                           /\ src.index < DISCARD_PILE_COUNT
                           /\ ps.discard_piles[src.index] = << >>)
                             => fails("NoCardAvailable", 0)
                       /\ (src.kind = "Stock" /\ ps.stock = << >>)
                             => fails("NoCardAvailable", 0)
                 /\ r.result # Ok => r.game = Game
                 /\ r.result.tag \in {"Ok", "BuildPileIndex", "HandIndex",
                                       "DiscardIndex", "NoCardAvailable",
                                       "CardMismatch"}

\* after a play the active player holds fewer than five cards and has an
\* empty first discard pile: the index past the hand, the empty discard pile
\* and the build pile 4 are each refused with their own error
C23_Witness ==
    /\ last = "Play"
    /\ status = Ongoing
    /\ Len(players[current_player].hand) < HAND_SIZE
    /\ apply_action(Game, current_player,
                    Play(Hand(Len(players[current_player].hand)), 0)).result =
          Err("HandIndex", Len(players[current_player].hand))
    /\ apply_action(Game, current_player, Play(SrcDiscard(0), 0)).result =
          Err("NoCardAvailable", 0)
    /\ apply_action(Game, current_player,
                    Play(SrcDiscard(DISCARD_PILE_COUNT), 0)).result =
          Err("DiscardIndex", DISCARD_PILE_COUNT)
    /\ apply_action(Game, current_player, Play(Stock, BUILD_PILE_COUNT)).result =
          Err("BuildPileIndex", BUILD_PILE_COUNT)

\* C24: across every apply_action call by the active player every stock is
\* left as it was, except that a successful Play with source Stock removes
\* the top card of the active player's stock: the stock shrinks by exactly
\* one and the remaining cards keep their order. No stock ever exceeds the
\* stock size it was dealt with.
C24_StockNeverGrows ==
    /\ \A p \in DOMAIN players : Len(players[p].stock) <= settings.stock_size
    /\ \A action \in AllActions :
          LET r == apply_action(Game, current_player, action)
              stockplay == /\ r.result = Ok
                           /\ action.kind = "Play"
                           /\ action.source.kind = "Stock"
          IN  \A p \in DOMAIN players :
                 IF stockplay /\ p = current_player
                 THEN /\ players[p].stock # << >>
                      /\ Len(r.game.players[p].stock) = Len(players[p].stock) - 1
                      /\ r.game.players[p].stock = PopLast(players[p].stock)
                 ELSE r.game.players[p].stock = players[p].stock

\* stock cards have been played and the next stock play is open: the stock
\* of the active player is below the dealt size and holds several cards
C24_Witness ==
    /\ last = "Play"
    /\ status = Ongoing
    /\ Len(players[current_player].stock) < settings.stock_size - 1
    /\ Len(players[current_player].stock) > 1
    /\ \E b \in 0..(BUILD_PILE_COUNT - 1) :
          apply_action(Game, current_player, Play(Stock, b)).result = Ok

\* C25: whenever the hand of the active player of an Ongoing game is not
\* empty, legal_actions holds Discard{hand_index: h, discard_pile: d} for
\* every h < hand length and every d < 4, and its Discard actions are those
\* hand length x 4 and no other, whether or not it holds a Play.
C25_AllDiscardsLegal ==
    (status = Ongoing /\ players[current_player].hand # << >>) =>
       LET r == legal_actions(Game, current_player)
           n == Len(players[current_player].hand)
           discards == SelectSeq(r.actions, LAMBDA act : act.kind = "Discard")
       IN  /\ r.result = Ok
           /\ \A h \in 0..(n - 1), d \in 0..(DISCARD_PILE_COUNT - 1) :
                 Discard(h, d) \in SeqToSet(r.actions)
           /\ Len(discards) = n * DISCARD_PILE_COUNT
           /\ Cardinality(SeqToSet(discards)) = n * DISCARD_PILE_COUNT

\* a turn has passed to a player who holds cards none of which can be
\* played, nor can the stock top: the list is the discards and nothing else
C25_Witness ==
    /\ last = "Discard"
    /\ status = Ongoing
    /\ players[current_player].hand # << >>
    /\ Len(legal_actions(Game, current_player).actions) =
          Len(players[current_player].hand) * DISCARD_PILE_COUNT
    /\ \A k \in DOMAIN legal_actions(Game, current_player).actions :
          legal_actions(Game, current_player).actions[k].kind = "Discard"

\* the values of GameStatus for the players of the game
StatusValues == {Ongoing, Draw} \cup {Finished(p) : p \in DOMAIN players}

InBounds(action) ==
    CASE action.kind = "Play" ->
           /\ action.b < BUILD_PILE_COUNT
           /\ action.source.kind = "Hand" => action.source.index < HAND_SIZE
           /\ action.source.kind = "Discard" =>
                 action.source.index < DISCARD_PILE_COUNT
      [] action.kind = "Discard" ->
           action.a < HAND_SIZE /\ action.b < DISCARD_PILE_COUNT
      [] OTHER -> TRUE

\* C28: every index below MAX_ACTIONS decodes to an action that encodes back
\* to that index; on the actions within the bounds action_index returns an
\* index below MAX_ACTIONS that no other in-bounds action shares, and on any
\* action outside the bounds it returns None
C28_ActionSpaceRoundTrip ==
    /\ (call.op = "index_to_action" /\ call.done /\ call.arg < MAX_ACTIONS) =>
          /\ call.ret # None
          /\ action_index(call.ret[1]) = Some(call.arg)
    /\ (call.op = "action_index" /\ call.done) =>
          IF InBounds(call.arg)
          THEN /\ call.ret # None
               /\ call.ret[1] \in 0..(MAX_ACTIONS - 1)
               /\ \A other \in AllActions :
                     (InBounds(other) /\ action_index(other) = call.ret)
                         => other = call.arg
          ELSE call.ret = None

\* the last discard index has been decoded
C28_Witness ==
    /\ call.op = "index_to_action" /\ call.done
    /\ call.arg = END_TURN_INDEX - 1
    /\ call.ret = Some(Discard(HAND_SIZE - 1, DISCARD_PILE_COUNT - 1))

\* C29: winner_points is 25 plus 5 for every stock card of a player whose id
\* differs from winner, whatever the other fields of the snapshot hold
C29_WinnerPoints ==
    (call.op = "winner_points" /\ call.done) =>
        LET ps == call.arg.state.players
            n == Cardinality(DOMAIN ps)
            w == call.arg.winner
            counts == [k \in 1..n |-> ps[k - 1].stock_count]
            own == IF w < n THEN counts[w + 1] ELSE 0
        IN  /\ call.ret = 25 + 5 * (SumSeq(counts) - own)
            /\ \A f \in 0..MaxFill :
                  winner_points(ScoreView(counts, w, f), w) = call.ret

\* three players, the winner in the middle still holding stock cards in the
\* snapshot, the others holding 2 and 1
C29_Witness ==
    /\ call.op = "winner_points" /\ call.done
    /\ call.arg.winner = 1
    /\ Cardinality(DOMAIN call.arg.state.players) = 3
    /\ call.arg.state.players[0].stock_count = 2
    /\ call.arg.state.players[1].stock_count = 1
    /\ call.arg.state.players[2].stock_count = 1
    /\ call.arg.state.status = Draw
    /\ call.ret = 40

\* C27: whatever snapshot and non-empty list a bot is handed, and whatever its
\* generator or its network holds, RandomBot (which does not read the
\* snapshot), HeuristicBot and PolicyBot each return an element of the list
C27_BotContract ==
    \A legal \in BotLists :
       /\ \A r \in 0..(RngMod - 1) :
             RandomBot_select_action(r, state_view(Game, current_player).view, legal)
                 \in SeqToSet(legal)
       /\ \A state \in BotViews :
             /\ HeuristicBot_select_action(state, legal) \in SeqToSet(legal)
             /\ \A values \in PolicyValues :
                   PolicyBot_select_action(values, state, legal) \in SeqToSet(legal)

\* the player to move has a stock play that is not the first entry of the
\* list: the heuristic bot takes it, the policy bot with falling logits takes
\* the first entry, and with rising logits a third one
C27_Witness ==
    /\ status = Ongoing
    /\ LET legal == legal_actions(Game, current_player).actions
           state == state_view(Game, current_player).view
           falling == [i \in 0..(MAX_ACTIONS - 1) |-> MAX_ACTIONS - i]
           rising == [i \in 0..(MAX_ACTIONS - 1) |-> (i * 1) % LogitMod]
       IN  \E b \in 0..(BUILD_PILE_COUNT - 1) :
              /\ HeuristicBot_select_action(state, legal) = Play(Stock, b)
              /\ legal[1] # Play(Stock, b)
              /\ PolicyBot_select_action(falling, state, legal) = legal[1]
              /\ PolicyBot_select_action(rising, state, legal)
                    \notin {legal[1], Play(Stock, b)}

\* C30: while the game is Ongoing, the list legal_actions returns for the
\* player to move holds exactly the actions apply_action accepts from that
\* player in that state
C30_LegalIffApplyOk ==
    status = Ongoing =>
        LET la == legal_actions(Game, current_player)
        IN  /\ la.result = Ok
            /\ SeqToSet(la.actions) \subseteq AllActions
            /\ \A a \in AllActions :
                  (a \in SeqToSet(la.actions))
                     <=> (apply_action(Game, current_player, a).result = Ok)

\* the player to move may play the stock top on one build pile but not on
\* another, may play a hand card, and may discard: the list holds the first,
\* the third and the fourth and leaves out the second
C30_Witness ==
    /\ status = Ongoing
    /\ LET la == SeqToSet(legal_actions(Game, current_player).actions)
       IN  /\ \E b1, b2 \in 0..(BUILD_PILE_COUNT - 1) :
                 /\ Play(Stock, b1) \in la
                 /\ apply_action(Game, current_player, Play(Stock, b1)).result = Ok
                 /\ Play(Stock, b2) \notin la
                 /\ apply_action(Game, current_player, Play(Stock, b2)).result.tag
                       = "CardMismatch"
           /\ \E h \in 0..(HAND_SIZE - 1), b \in 0..(BUILD_PILE_COUNT - 1) :
                 Play(Hand(h), b) \in la
           /\ Discard(0, 0) \in la
           /\ EndTurn \notin la

\* C31: every apply_action call that returns an error, whoever makes it and
\* whatever the action, returns the game exactly as it was given
C31_FailureAtomicity ==
    \A player \in 0..settings.num_players, action \in AllActions :
       LET r == apply_action(Game, player, action)
       IN  r.result # Ok => r.game = Game

\* the active player of a running game holds cards and is refused a play
\* that does not match, a discard onto a pile that does not exist and
\* EndTurn; another player is refused its turn
C31_Witness ==
    /\ status = Ongoing
    /\ last = "Play"
    /\ \E b \in 0..(BUILD_PILE_COUNT - 1) :
          apply_action(Game, current_player, Play(Hand(0), b)).result.tag
             = "CardMismatch"
    /\ apply_action(Game, current_player, Discard(0, DISCARD_PILE_COUNT)).result.tag
          = "DiscardIndex"
    /\ apply_action(Game, current_player, EndTurn).result.tag = "MustDiscard"
    /\ apply_action(Game, (current_player + 1) % settings.num_players,
                    Discard(0, 0)).result.tag = "NotPlayersTurn"

\* C32: in every reachable Ongoing state legal_actions for the player to
\* move returns Ok with a non-empty list, and apply_action accepts every
\* entry of it: the caller's loop always has a step to take
C32_NoDeadlock ==
    status = Ongoing =>
        LET la == legal_actions(Game, current_player)
        IN  /\ la.result = Ok
            /\ Len(la.actions) >= 1
            /\ \A k \in DOMAIN la.actions :
                  apply_action(Game, current_player, la.actions[k]).result = Ok

\* the tightest case: the player to move holds no card and can play neither
\* the stock top nor a discard top, and the list is EndTurn alone
C32_Witness ==
    /\ status = Ongoing
    /\ players[current_player].hand = << >>
    /\ draw_pile = << >> /\ recycle_pile = << >>
    /\ legal_actions(Game, current_player) = [result |-> Ok, actions |-> <<EndTurn>>]
    /\ apply_action(Game, current_player, EndTurn).result = Ok

\* C33: while the game is Ongoing no stock is empty; a call that empties a
\* stock is a successful Play from Stock by the owner of that stock, and it
\* returns with the game Finished and that player the winner
C33_StockNonEmptyWhileOngoing ==
    /\ status = Ongoing => \A p \in DOMAIN players : players[p].stock # << >>
    /\ \A action \in AllActions :
          LET r == apply_action(Game, current_player, action)
          IN  \A p \in DOMAIN players :
                 (players[p].stock # << >> /\ r.game.players[p].stock = << >>)
                    => /\ r.result = Ok
                       /\ action.kind = "Play"
                       /\ action.source = Stock
                       /\ p = current_player
                       /\ r.game.status = Finished(p)

\* the player to move is down to the last stock card with cards in hand,
\* and playing it ends the game
C33_Witness ==
    /\ status = Ongoing
    /\ Len(players[current_player].stock) = 1
    /\ players[current_player].hand # << >>
    /\ \E b \in 0..(BUILD_PILE_COUNT - 1) :
          LET r == apply_action(Game, current_player, Play(Stock, b))
          IN  /\ r.result = Ok
              /\ r.game.players[current_player].stock = << >>
              /\ r.game.status = Finished(current_player)

\* C34: hand_size is 5 and no hand ever holds more than hand_size cards;
\* every hand index in an action legal_actions returns, to whoever asks, is
\* below 5, so every such action has an index in the action space
C34_HandBound ==
    /\ settings.hand_size = HAND_SIZE
    /\ \A p \in DOMAIN players : Len(players[p].hand) <= settings.hand_size
    /\ \A player \in AllPlayers :
          LET la == legal_actions(Game, player).actions
          IN  \A k \in DOMAIN la :
                 /\ (la[k].kind = "Play" /\ la[k].source.kind = "Hand")
                       => la[k].source.index < HAND_SIZE
                 /\ la[k].kind = "Discard" => la[k].a < HAND_SIZE
                 /\ action_index(la[k]) # None

\* begin_turn has filled the hand of the player to move to five cards, and
\* the list offers the fifth card for a play and for a discard
C34_Witness ==
    /\ status = Ongoing
    /\ Len(players[current_player].hand) = HAND_SIZE
    /\ LET la == SeqToSet(legal_actions(Game, current_player).actions)
       IN  /\ Discard(HAND_SIZE - 1, DISCARD_PILE_COUNT - 1) \in la
           /\ \E h \in 0..(HAND_SIZE - 1), b \in 0..(BUILD_PILE_COUNT - 1) :
                 Play(Hand(h), b) \in la

IsPrefix(s, t) == Len(s) <= Len(t) /\ SubSeq(t, 1, Len(s)) = s
CountOf(s, c) == Cardinality({k \in DOMAIN s : s[k] = c})
SameCards(s, t) == \A c \in SkipBo..MAX_CARD_VALUE : CountOf(s, c) = CountOf(t, c)

\* C35: a draw attempt leaves the recycle pile alone while the draw pile holds
\* a card, and with the draw pile empty it moves the whole recycle pile into
\* the draw pile; an apply_action call either keeps the recycle pile as a
\* prefix of the new one or is a turn end whose refill needed more cards than
\* the draw pile held, and then the recycle pile ends empty with all of its
\* cards in the draw pile or the refilled hand
C35_RecycleTransfer ==
    /\ LET d == draw_card(Game)
       IN  IF draw_pile # << >>
           THEN d.game.recycle_pile = recycle_pile
           ELSE /\ d.game.recycle_pile = << >>
                /\ recycle_pile # << >> =>
                      SameCards(d.game.draw_pile \o <<d.card>>, recycle_pile)
    /\ \A action \in AllActions :
          LET r == apply_action(Game, current_player, action)
              next == (current_player + 1) % settings.num_players
              need == settings.hand_size - Len(players[next].hand)
              ends == r.result = Ok /\ action.kind \in {"Discard", "EndTurn"}
          IN  IF ends /\ need > Len(draw_pile) /\ recycle_pile # << >>
              THEN /\ r.game.recycle_pile = << >>
                   /\ Len(r.game.draw_pile) + Len(r.game.players[next].hand)
                         = Len(draw_pile) + Len(recycle_pile) + Len(players[next].hand)
                   /\ SameCards(r.game.draw_pile \o r.game.players[next].hand,
                                draw_pile \o recycle_pile \o players[next].hand)
              ELSE IsPrefix(recycle_pile, r.game.recycle_pile)

\* a completed build pile lies in the recycle pile and the turn end of the
\* player to move runs the draw pile dry: the refill moves the recycle pile
\* into the draw pile and cards of it are left there
C35_Witness ==
    /\ status = Ongoing
    /\ Len(recycle_pile) = MAX_CARD_VALUE
    /\ \E action \in TurnEnders :
          LET r == apply_action(Game, current_player, action)
          IN  /\ r.result = Ok
              /\ r.game.recycle_pile = << >>
              /\ r.game.draw_pile # << >>
              /\ r.game.rng # rng

C37_OthersUntouched ==
    \A action \in AllActions :
       LET r == apply_action(Game, current_player, action)
       IN  \A p \in DOMAIN players :
              p # current_player =>
                 /\ r.game.players[p].stock = players[p].stock
                 /\ r.game.players[p].discard_piles = players[p].discard_piles
                 /\ \/ r.game.players[p].hand = players[p].hand
                    \/ /\ r.result = Ok
                       /\ action.kind \in {"Discard", "EndTurn"}
                       /\ r.game.current_player = p
                       /\ IsPrefix(players[p].hand, r.game.players[p].hand)
                       /\ SameCards(r.game.players[p].hand \o r.game.draw_pile
                                       \o r.game.recycle_pile,
                                    players[p].hand \o draw_pile \o recycle_pile)

\* the player to move discards and the next player, who holds a stock, a
\* discard pile and some hand cards, draws more on becoming the player to move
C37_Witness ==
    /\ status = Ongoing
    /\ LET next == (current_player + 1) % settings.num_players
           r == apply_action(Game, current_player, Discard(0, 0))
       IN  /\ r.result = Ok
           /\ players[next].hand # << >>
           /\ players[next].discard_piles[0] # << >>
           /\ Len(r.game.players[next].hand) > Len(players[next].hand)

\* C38: in every reachable state the card at 0-based position k of a build
\* pile is a wildcard or the number k + 1; an apply_action call leaves a build
\* pile as it was, or appends one card to it, or empties it, and it empties
\* it only on the card that completes it
C38_BuildPileSequence ==
    /\ \A b \in DOMAIN build_piles :
          \A k \in 1..Len(build_piles[b]) :
             build_piles[b][k] = SkipBo \/ build_piles[b][k] = k
    /\ \A action \in AllActions :
          LET r == apply_action(Game, current_player, action)
          IN  \A b \in DOMAIN build_piles :
                 LET old == build_piles[b]
                     new == r.game.build_piles[b]
                 IN  \/ new = old
                     \/ Len(new) = Len(old) + 1 /\ IsPrefix(old, new)
                     \/ new = << >> /\ Len(old) = MAX_CARD_VALUE - 1

\* a build pile that holds a wildcard below a numbered card
C38_Witness ==
    \E b \in DOMAIN build_piles :
       \E k \in 1..Len(build_piles[b]) :
          /\ build_piles[b][k] = SkipBo
          /\ k < Len(build_piles[b])
          /\ build_piles[b][k + 1] = k + 1

\* C39: between calls the recycle pile holds a multiple of 12 cards; an
\* apply_action call leaves its size as it was, adds 12 to it, or takes it
\* to 0
C39_RecycleMultipleOf12 ==
    /\ Len(recycle_pile) % MAX_CARD_VALUE = 0
    /\ \A action \in AllActions :
          LET r == apply_action(Game, current_player, action)
          IN  Len(r.game.recycle_pile) \in
                 {Len(recycle_pile), Len(recycle_pile) + MAX_CARD_VALUE, 0}

\* the play that completed a build pile has just returned: its 12 cards lie
\* in the recycle pile and every build pile is empty
C39_Witness ==
    /\ Len(recycle_pile) = MAX_CARD_VALUE
    /\ last = "Play"
    /\ status = Ongoing
    /\ \A b \in DOMAIN build_piles : build_piles[b] = << >>

====
